------------------------- MODULE AuthSession_proofs -------------------------
(***************************************************************************)
(* Proofs, for every set of requests, users and tenants and every token    *)
(* lifetime, of the safety properties that the TLC runs of AuthSession     *)
(* check on small instances.                                               *)
(***************************************************************************)
EXTENDS AuthSession, TLAPS

Inserting == {"login", "refresh"}   \* the endpoints that add a row
Spending  == {"refresh", "logout"}  \* the endpoints that revoke one

\* A request's stage says which endpoint it serves and which locals it has.
LocalsInv ==
    \A r \in Requests :
        /\ pc[r] # "idle" => call[r] \in Call
        /\ pc[r] \in {"login", "issue"} => call[r].op = "login"
        /\ pc[r] \in {"decode", "select"} => call[r].op \in Spending
        /\ pc[r] = "rotate" => call[r].op = "refresh"
        /\ pc[r] = "revoke" => call[r].op = "logout"
        /\ pc[r] \in {"member", "commit"} => call[r].op \in Inserting
        /\ pc[r] # "idle" /\ call[r].op \in Spending =>
              /\ call[r].token \in Token
              /\ call[r].sub = call[r].token.sub
        /\ pc[r] \in {"commit", "ok"} /\ call[r].op \in Inserting =>
              /\ issued[r] \in Token
              /\ issued[r].sub = call[r].sub

\* What a refresh or a logout picked is the row of an answered request, for the
\* very token string it was called with.
PickedInv ==
    \A r \in Requests :
        /\ pc[r] \in {"member", "rotate", "revoke", "commit", "ok"}
        /\ call[r].op \in Spending
        => /\ picked[r] \in Requests
           /\ picked[r] # r
           /\ pc[picked[r]] = "ok"
           /\ issued[picked[r]] = call[r].token

\* A row is the one its request issued, and its user is there.
RowInv ==
    \A i \in Requests :
        refresh_tokens[i] # None =>
            /\ pc[i] = "ok"
            /\ refresh_tokens[i].token = issued[i]
            /\ account[refresh_tokens[i].token.sub] # "deleted"

\* An open transaction holds its user's row and, in a refresh, the row it spends.
CommitInv ==
    \A r \in Requests :
        pc[r] = "commit" =>
            /\ account[call[r].sub] # "deleted"
            /\ call[r].op = "refresh" => refresh_tokens[picked[r]] # None

\* Requests answered earlier spent other rows than the one just picked, and than
\* the one a later request makes.
EarlierInv ==
    \A r \in Requests :
        /\ \A q \in preceding[r] : pc[q] = "ok" /\ (call[q].op \in Spending => picked[q] # r)
        /\ pc[r] \in {"member", "rotate", "revoke", "commit", "ok"}
           /\ call[r].op \in Spending
           => \A q \in preceding[r] : Spent(q) => picked[q] # picked[r]

\* A removed member stays removed, and is stopped before anything is issued.
BarredInv ==
    \A r \in barred :
        /\ pc[r] # "idle"
        /\ call[r].tenant \in Tenants
        /\ \/ membership[<<call[r].sub, call[r].tenant>>] = "removed"
           \/ /\ membership[<<call[r].sub, call[r].tenant>>] = "none"
              /\ account[call[r].sub] = "deleted"
        /\ pc[r] \in {"issue", "rotate", "commit", "ok"} => call[r].op = "logout"

IInv ==
    /\ TypeOK
    /\ LocalsInv
    /\ PickedInv
    /\ RowInv
    /\ CommitInv
    /\ EarlierInv
    /\ BarredInv
    /\ RotationAtomic

-----------------------------------------------------------------------------
\* Every step of a login, refresh, logout or account handler keeps the invariant.
LEMMA InductiveStep == IInv /\ [Next]_vars => IInv'
<1> SUFFICES ASSUME IInv, [Next]_vars PROVE IInv'
  OBVIOUS
<1> USE NoTenantAssumption, NoneAssumption, TimeAssumption
        DEF IInv, db, Goto, Scope, Token, Row, Call, Spending, Inserting
<1>1. ASSUME NEW r \in Requests, NEW u \in Users, NEW t \in Scope, ArriveLogin(r, u, t)
      PROVE  IInv'
  <2>1. TypeOK'
    BY <1>1 DEF ArriveLogin, Arrive, TypeOK, LocalsInv, PickedInv, Working,
                Finished, Answered
  <2>2. LocalsInv'
    BY <1>1 DEF ArriveLogin, Arrive, LocalsInv, TypeOK
  <2>3. PickedInv'
    BY <1>1 DEF ArriveLogin, Arrive, PickedInv, TypeOK, LocalsInv, RowInv
  <2>4. RowInv'
    BY <1>1 DEF ArriveLogin, Arrive, RowInv, TypeOK, LocalsInv, PickedInv, CommitInv
  <2>5. CommitInv'
    BY <1>1 DEF ArriveLogin, Arrive, CommitInv, TypeOK, LocalsInv, PickedInv, RowInv
  <2>6. EarlierInv'
    BY <1>1 DEF ArriveLogin, Arrive, EarlierInv, TypeOK, LocalsInv, PickedInv,
                RowInv, RotationAtomic, Spent
  <2>7. BarredInv'
    <3>1. \A q \in Requests : q # r => pc'[q] = pc[q] /\ call'[q] = call[q]
      BY <1>1 DEF ArriveLogin, Arrive, TypeOK
    <3>2. pc'[r] = "login" /\ call'[r].sub = u /\ call'[r].tenant = t
      BY <1>1 DEF ArriveLogin, Arrive, TypeOK
    <3>3. r \in barred' => /\ t \in Tenants
                          /\ membership[<<u, t>>] = "removed"
      BY <1>1 DEF ArriveLogin, Arrive, BarredInv, TypeOK
    <3>4. UNCHANGED <<membership, account>>
      BY <1>1 DEF ArriveLogin, Arrive
    <3>5. barred' \subseteq barred \cup {r} /\ barred' \subseteq Requests
      BY <1>1 DEF ArriveLogin, Arrive, TypeOK
    <3>6. ASSUME NEW q \in barred', q # r
          PROVE  q \in barred /\ pc'[q] = pc[q] /\ call'[q] = call[q]
      BY <3>1, <3>5, <3>6
    <3> QED
      BY <3>2, <3>3, <3>4, <3>6 DEF BarredInv
  <2>8. RotationAtomic'
    BY <1>1 DEF ArriveLogin, Arrive, RotationAtomic, TypeOK, LocalsInv, PickedInv,
                RowInv, CommitInv, Spent
  <2> QED
    BY <2>1, <2>2, <2>3, <2>4, <2>5, <2>6, <2>7, <2>8
<1>2. ASSUME NEW r \in Requests, NEW op \in {"refresh", "logout"},
             NEW tok \in Handed, ArriveWithToken(r, op, tok)
      PROVE  IInv'
  <2>1. TypeOK'
    BY <1>2 DEF ArriveWithToken, Arrive, Handed, TypeOK, LocalsInv, PickedInv,
                Working, Finished, Answered
  <2>2. LocalsInv'
    BY <1>2 DEF ArriveWithToken, Arrive, Handed, LocalsInv, TypeOK
  <2>3. PickedInv'
    BY <1>2 DEF ArriveWithToken, Arrive, Handed, PickedInv, TypeOK, LocalsInv,
                RowInv
  <2>4. RowInv'
    BY <1>2 DEF ArriveWithToken, Arrive, Handed, RowInv, TypeOK, LocalsInv,
                PickedInv, CommitInv
  <2>5. CommitInv'
    BY <1>2 DEF ArriveWithToken, Arrive, Handed, CommitInv, TypeOK, LocalsInv,
                PickedInv, RowInv
  <2>6. EarlierInv'
    BY <1>2 DEF ArriveWithToken, Arrive, Handed, EarlierInv, TypeOK, LocalsInv,
                PickedInv, RowInv, RotationAtomic, Spent
  <2>7. BarredInv'
    <3>1. \A q \in Requests : q # r => pc'[q] = pc[q] /\ call'[q] = call[q]
      BY <1>2 DEF ArriveWithToken, Arrive, TypeOK
    <3>2. pc'[r] = "decode" /\ call'[r].sub = tok.sub /\ call'[r].tenant = tok.tenant
      BY <1>2 DEF ArriveWithToken, Arrive, TypeOK
    <3>3. r \in barred' => /\ tok.tenant \in Tenants
                          /\ membership[<<tok.sub, tok.tenant>>] = "removed"
      BY <1>2 DEF ArriveWithToken, Arrive, BarredInv, TypeOK
    <3>4. UNCHANGED <<membership, account>>
      BY <1>2 DEF ArriveWithToken, Arrive
    <3>5. barred' \subseteq barred \cup {r} /\ barred' \subseteq Requests
      BY <1>2 DEF ArriveWithToken, Arrive, TypeOK
    <3>6. ASSUME NEW q \in barred', q # r
          PROVE  q \in barred /\ pc'[q] = pc[q] /\ call'[q] = call[q]
      BY <3>1, <3>5, <3>6
    <3> QED
      BY <3>2, <3>3, <3>4, <3>6 DEF BarredInv
  <2>8. RotationAtomic'
    BY <1>2 DEF ArriveWithToken, Arrive, Handed, RotationAtomic, TypeOK, LocalsInv,
                PickedInv, RowInv, CommitInv, Spent
  <2> QED
    BY <2>1, <2>2, <2>3, <2>4, <2>5, <2>6, <2>7, <2>8
<1>3. ASSUME NEW r \in Requests, LoginCheckUser(r)
      PROVE  IInv'
  <2>1. TypeOK'
    BY <1>3 DEF LoginCheckUser, TypeOK, LocalsInv, PickedInv, Working, Finished,
                Answered
  <2>2. LocalsInv'
    BY <1>3 DEF LoginCheckUser, LocalsInv, TypeOK
  <2>3. PickedInv'
    BY <1>3 DEF LoginCheckUser, PickedInv, TypeOK, LocalsInv, RowInv
  <2>4. RowInv'
    BY <1>3 DEF LoginCheckUser, RowInv, TypeOK, LocalsInv, PickedInv, CommitInv
  <2>5. CommitInv'
    BY <1>3 DEF LoginCheckUser, CommitInv, TypeOK, LocalsInv, PickedInv, RowInv
  <2>6. EarlierInv'
    BY <1>3 DEF LoginCheckUser, EarlierInv, TypeOK, LocalsInv, PickedInv, RowInv,
                RotationAtomic, Spent
  <2>7. BarredInv'
    BY <1>3 DEF LoginCheckUser, BarredInv, TypeOK, LocalsInv
  <2>8. RotationAtomic'
    BY <1>3 DEF LoginCheckUser, RotationAtomic, TypeOK, LocalsInv, PickedInv,
                RowInv, CommitInv, Spent
  <2> QED
    BY <2>1, <2>2, <2>3, <2>4, <2>5, <2>6, <2>7, <2>8
<1>4. ASSUME NEW r \in Requests, CheckMember(r)
      PROVE  IInv'
  <2>1. TypeOK'
    BY <1>4 DEF CheckMember, TypeOK, LocalsInv, PickedInv, Working, Finished,
                Answered
  <2>2. LocalsInv'
    BY <1>4 DEF CheckMember, LocalsInv, TypeOK
  <2>3. PickedInv'
    BY <1>4 DEF CheckMember, PickedInv, TypeOK, LocalsInv, RowInv
  <2>4. RowInv'
    BY <1>4 DEF CheckMember, RowInv, TypeOK, LocalsInv, PickedInv, CommitInv
  <2>5. CommitInv'
    BY <1>4 DEF CheckMember, CommitInv, TypeOK, LocalsInv, PickedInv, RowInv
  <2>6. EarlierInv'
    BY <1>4 DEF CheckMember, EarlierInv, TypeOK, LocalsInv, PickedInv, RowInv,
                RotationAtomic, Spent
  <2>7. BarredInv'
    BY <1>4 DEF CheckMember, BarredInv, TypeOK, LocalsInv
  <2>8. RotationAtomic'
    BY <1>4 DEF CheckMember, RotationAtomic, TypeOK, LocalsInv, PickedInv, RowInv,
                CommitInv, Spent
  <2> QED
    BY <2>1, <2>2, <2>3, <2>4, <2>5, <2>6, <2>7, <2>8
<1>5. ASSUME NEW r \in Requests, LoginIssue(r)
      PROVE  IInv'
  <2>1. TypeOK'
    <3>1. pc' \in [Requests -> {"idle"} \cup Working \cup Finished]
      BY <1>5 DEF LoginIssue, TypeOK, Working, Finished, Answered
    <3>2. issued' \in [Requests -> Token \cup {None}]
      <4>1. NewToken(call[r].sub, call[r].tenant) \in Token
        BY <1>5 DEF LoginIssue, NewToken, TypeOK, LocalsInv
      <4> QED
        BY <1>5, <4>1 DEF LoginIssue, TypeOK
    <3> QED
      BY <1>5, <3>1, <3>2 DEF LoginIssue, TypeOK
  <2>2. LocalsInv'
    BY <1>5 DEF LoginIssue, NewToken, LocalsInv, TypeOK
  <2>3. PickedInv'
    BY <1>5 DEF LoginIssue, NewToken, PickedInv, TypeOK, LocalsInv, RowInv
  <2>4. RowInv'
    BY <1>5 DEF LoginIssue, NewToken, RowInv, TypeOK, LocalsInv, PickedInv,
                CommitInv
  <2>5. CommitInv'
    BY <1>5 DEF LoginIssue, NewToken, CommitInv, TypeOK, LocalsInv, PickedInv,
                RowInv
  <2>6. EarlierInv'
    BY <1>5 DEF LoginIssue, NewToken, EarlierInv, TypeOK, LocalsInv, PickedInv,
                RowInv, RotationAtomic, Spent
  <2>7. BarredInv'
    BY <1>5 DEF LoginIssue, NewToken, BarredInv, TypeOK, LocalsInv
  <2>8. RotationAtomic'
    BY <1>5 DEF LoginIssue, NewToken, RotationAtomic, TypeOK, LocalsInv, PickedInv,
                RowInv, CommitInv, Spent
  <2> QED
    BY <2>1, <2>2, <2>3, <2>4, <2>5, <2>6, <2>7, <2>8
<1>6. ASSUME NEW r \in Requests, CommitLogin(r)
      PROVE  IInv'
  <2>1. TypeOK'
    BY <1>6 DEF CommitLogin, TypeOK, LocalsInv, PickedInv, Working, Finished,
                Answered
  <2>2. LocalsInv'
    BY <1>6 DEF CommitLogin, LocalsInv, TypeOK
  <2>3. PickedInv'
    BY <1>6 DEF CommitLogin, PickedInv, TypeOK, LocalsInv, RowInv
  <2>4. RowInv'
    BY <1>6 DEF CommitLogin, RowInv, TypeOK, LocalsInv, PickedInv, CommitInv
  <2>5. CommitInv'
    BY <1>6 DEF CommitLogin, CommitInv, TypeOK, LocalsInv, PickedInv, RowInv
  <2>6. EarlierInv'
    BY <1>6 DEF CommitLogin, EarlierInv, TypeOK, LocalsInv, PickedInv, RowInv,
                RotationAtomic, Spent
  <2>7. BarredInv'
    BY <1>6 DEF CommitLogin, BarredInv, TypeOK, LocalsInv
  <2>8. RotationAtomic'
    BY <1>6 DEF CommitLogin, RotationAtomic, TypeOK, LocalsInv, PickedInv, RowInv,
                CommitInv, Spent
  <2> QED
    BY <2>1, <2>2, <2>3, <2>4, <2>5, <2>6, <2>7, <2>8
<1>7. ASSUME NEW r \in Requests, DecodeToken(r)
      PROVE  IInv'
  <2>1. TypeOK'
    BY <1>7 DEF DecodeToken, TypeOK, LocalsInv, PickedInv, Working, Finished,
                Answered
  <2>2. LocalsInv'
    BY <1>7 DEF DecodeToken, LocalsInv, TypeOK
  <2>3. PickedInv'
    BY <1>7 DEF DecodeToken, PickedInv, TypeOK, LocalsInv, RowInv
  <2>4. RowInv'
    BY <1>7 DEF DecodeToken, RowInv, TypeOK, LocalsInv, PickedInv, CommitInv
  <2>5. CommitInv'
    BY <1>7 DEF DecodeToken, CommitInv, TypeOK, LocalsInv, PickedInv, RowInv
  <2>6. EarlierInv'
    BY <1>7 DEF DecodeToken, EarlierInv, TypeOK, LocalsInv, PickedInv, RowInv,
                RotationAtomic, Spent
  <2>7. BarredInv'
    BY <1>7 DEF DecodeToken, BarredInv, TypeOK, LocalsInv
  <2>8. RotationAtomic'
    BY <1>7 DEF DecodeToken, RotationAtomic, TypeOK, LocalsInv, PickedInv, RowInv,
                CommitInv, Spent
  <2> QED
    BY <2>1, <2>2, <2>3, <2>4, <2>5, <2>6, <2>7, <2>8
<1>8. ASSUME NEW r \in Requests, SelectToken(r)
      PROVE  IInv'
  <2>1. TypeOK'
    <3>1. pc' \in [Requests -> {"idle"} \cup Working \cup Finished]
      BY <1>8 DEF SelectToken, TypeOK, Working, Finished, Answered
    <3>2. picked' \in [Requests -> Requests \cup {None}]
      BY <1>8 DEF SelectToken, Matching, TypeOK
    <3> QED
      BY <1>8, <3>1, <3>2 DEF SelectToken, TypeOK
  <2>2. LocalsInv'
    BY <1>8 DEF SelectToken, Matching, LocalsInv, TypeOK
  <2>3. PickedInv'
    BY <1>8 DEF SelectToken, Matching, PickedInv, TypeOK, LocalsInv, RowInv
  <2>4. RowInv'
    BY <1>8 DEF SelectToken, Matching, RowInv, TypeOK, LocalsInv, PickedInv,
                CommitInv
  <2>5. CommitInv'
    BY <1>8 DEF SelectToken, Matching, CommitInv, TypeOK, LocalsInv, PickedInv,
                RowInv
  <2>6. EarlierInv'
    <3>1. CASE \E i \in Matching(r) : picked' = [picked EXCEPT ![r] = i]
      <4>1. PICK i \in Matching(r) : picked' = [picked EXCEPT ![r] = i]
        BY <3>1
      <4>2. \A q \in Requests : Spent(q) => picked[q] # i
        BY <4>1 DEF Matching, RotationAtomic
      <4>3. \A q \in Requests : Spent(q)' => Spent(q) /\ picked'[q] = picked[q]
        BY <1>8, <4>1 DEF SelectToken, TypeOK, Spent
      <4>4. \A q \in Requests : pc[q] = "ok" => pc'[q] = "ok" /\ picked'[q] = picked[q]
        BY <1>8, <4>1 DEF SelectToken, TypeOK
      <4>5. /\ UNCHANGED <<call, preceding>>
            /\ picked'[r] = i
            /\ \A q \in Requests \ {r} : pc'[q] = pc[q] /\ picked'[q] = picked[q]
        BY <1>8, <4>1 DEF SelectToken, TypeOK, Matching
      <4>6. \A q \in Requests : preceding[q] \subseteq Requests
        BY DEF TypeOK
      <4>7. ASSUME NEW p \in Requests, NEW q \in preceding[p], Spent(q)',
                   \/ p = r
                   \/ /\ pc[p] \in {"member", "rotate", "revoke", "commit", "ok"}
                      /\ call[p].op \in Spending
            PROVE  picked'[q] # picked'[p]
        BY <4>2, <4>3, <4>5, <4>6, <4>7 DEF EarlierInv
      <4>8. ASSUME NEW p \in Requests, NEW q \in preceding[p]
            PROVE  pc'[q] = "ok" /\ (call[q].op \in Spending => picked'[q] # p)
        BY <4>4, <4>6, <4>8 DEF EarlierInv
      <4> QED
        BY <4>5, <4>6, <4>7, <4>8 DEF EarlierInv
    <3>2. CASE pc' = [pc EXCEPT ![r] = "refused"] /\ UNCHANGED picked
      BY <1>8, <3>2 DEF SelectToken, EarlierInv, TypeOK, Spent
    <3> QED
      BY <1>8, <3>1, <3>2 DEF SelectToken
  <2>7. BarredInv'
    BY <1>8 DEF SelectToken, Matching, BarredInv, TypeOK, LocalsInv
  <2>8. RotationAtomic'
    BY <1>8 DEF SelectToken, Matching, RotationAtomic, TypeOK, LocalsInv,
                PickedInv, RowInv, CommitInv, Spent
  <2> QED
    BY <2>1, <2>2, <2>3, <2>4, <2>5, <2>6, <2>7, <2>8
<1>9. ASSUME NEW r \in Requests, RotateToken(r)
      PROVE  IInv'
  <2>1. TypeOK'
    <3>1. pc' \in [Requests -> {"idle"} \cup Working \cup Finished]
      BY <1>9 DEF RotateToken, TypeOK, Working, Finished, Answered
    <3>2. issued' \in [Requests -> Token \cup {None}]
      <4>1. NewToken(call[r].sub, call[r].tenant) \in Token
        BY <1>9 DEF RotateToken, NewToken, TypeOK, LocalsInv
      <4> QED
        BY <1>9, <4>1 DEF RotateToken, TypeOK
    <3> QED
      BY <1>9, <3>1, <3>2 DEF RotateToken, TypeOK
  <2>2. LocalsInv'
    BY <1>9 DEF RotateToken, NewToken, LocalsInv, TypeOK
  <2>3. PickedInv'
    BY <1>9 DEF RotateToken, NewToken, PickedInv, TypeOK, LocalsInv, RowInv
  <2>4. RowInv'
    BY <1>9 DEF RotateToken, NewToken, RowInv, TypeOK, LocalsInv, PickedInv,
                CommitInv
  <2>5. CommitInv'
    BY <1>9 DEF RotateToken, NewToken, CommitInv, TypeOK, LocalsInv, PickedInv,
                RowInv
  <2>6. EarlierInv'
    BY <1>9 DEF RotateToken, NewToken, EarlierInv, TypeOK, LocalsInv, PickedInv,
                RowInv, RotationAtomic, Spent
  <2>7. BarredInv'
    BY <1>9 DEF RotateToken, NewToken, BarredInv, TypeOK, LocalsInv
  <2>8. RotationAtomic'
    BY <1>9 DEF RotateToken, NewToken, RotationAtomic, TypeOK, LocalsInv,
                PickedInv, RowInv, CommitInv, Spent
  <2> QED
    BY <2>1, <2>2, <2>3, <2>4, <2>5, <2>6, <2>7, <2>8
<1>10. ASSUME NEW r \in Requests, CommitRefresh(r)
      PROVE  IInv'
  <2> DEFINE old == refresh_tokens[picked[r]]
  <2>a. /\ picked[r] \in Requests \ {r}
        /\ old \in Row
        /\ old.token = issued[picked[r]]
    BY <1>10 DEF CommitRefresh, TypeOK, LocalsInv, PickedInv, RowInv, CommitInv
  <2>b. issued[r] \in Token
    BY <1>10 DEF CommitRefresh, LocalsInv
  <2>c. /\ refresh_tokens'[picked[r]] = [old EXCEPT !.revoked = TRUE]
        /\ refresh_tokens'[r] = [token |-> issued[r], revoked |-> FALSE]
        /\ \A i \in Requests \ {r, picked[r]} : refresh_tokens'[i] = refresh_tokens[i]
    BY <1>10, <2>a DEF CommitRefresh, TypeOK
  <2>d. /\ refresh_tokens'[picked[r]] \in Row
        /\ refresh_tokens'[picked[r]].token = old.token
        /\ refresh_tokens'[picked[r]].revoked
    BY <2>a, <2>c
  <2>e. refresh_tokens'[r] \in Row
    BY <2>b, <2>c
  <2>1. TypeOK'
    <3>1. refresh_tokens' \in [Requests -> Row \cup {None}]
      <4>1. \A i \in Requests : refresh_tokens'[i] \in Row \cup {None}
        BY <2>c, <2>d, <2>e DEF TypeOK
      <4>2. refresh_tokens' = [i \in Requests |-> refresh_tokens'[i]]
        BY <1>10 DEF CommitRefresh, TypeOK
      <4> QED
        BY <4>1, <4>2
    <3> QED
      BY <1>10, <3>1 DEF CommitRefresh, TypeOK, Working, Finished, Answered
  <2>2. LocalsInv'
    BY <1>10 DEF CommitRefresh, LocalsInv, TypeOK
  <2>3. PickedInv'
    BY <1>10 DEF CommitRefresh, PickedInv, TypeOK, LocalsInv, RowInv
  <2>4. RowInv'
    BY <1>10 DEF CommitRefresh, RowInv, TypeOK, LocalsInv, PickedInv, CommitInv
  <2>5. CommitInv'
    <3>1. \A i \in Requests : refresh_tokens[i] # None => refresh_tokens'[i] # None
      BY <2>c, <2>d, <2>e
    <3>2. \A q \in Requests : pc'[q] = "commit" => pc[q] = "commit"
      BY <1>10 DEF CommitRefresh, TypeOK
    <3>3. \A q \in Requests :
             pc[q] = "commit" /\ call[q].op = "refresh" => picked[q] \in Requests
      BY DEF PickedInv
    <3> QED
      BY <1>10, <3>1, <3>2, <3>3 DEF CommitRefresh, CommitInv
  <2>6. EarlierInv'
    BY <1>10 DEF CommitRefresh, EarlierInv, TypeOK, LocalsInv, PickedInv, RowInv,
                 RotationAtomic, Spent
  <2>7. BarredInv'
    BY <1>10 DEF CommitRefresh, BarredInv, TypeOK, LocalsInv
  <2>8. RotationAtomic'
    <3>1. Spent(r)'
      BY <1>10 DEF CommitRefresh, Spent, TypeOK
    <3>2. \A q \in Requests : Spent(q) => Spent(q)'
      BY <1>10 DEF CommitRefresh, Spent, TypeOK
    <3>3. \A q \in Requests : Spent(q)' => q = r \/ Spent(q)
      BY <1>10 DEF CommitRefresh, Spent, TypeOK
    <3>4. ASSUME NEW q \in Requests, Spent(q)', refresh_tokens'[picked'[q]] # None
          PROVE  refresh_tokens'[picked'[q]].revoked
      <4>1. picked'[q] = picked[q]
        BY <1>10 DEF CommitRefresh
      <4>2. CASE picked[q] = picked[r]
        BY <2>d, <4>1, <4>2
      <4>3. CASE picked[q] # picked[r]
        <5>1. Spent(q)
          BY <3>3, <3>4, <4>3
        <5>2. picked[q] \in Requests \ {r}
          BY <1>10, <5>1 DEF CommitRefresh, Spent, PickedInv
        <5> QED
          BY <2>c, <3>4, <4>1, <4>3, <5>1, <5>2 DEF RotationAtomic
      <4> QED
        BY <4>2, <4>3
    <3>5. ASSUME NEW i \in Requests, refresh_tokens'[i] # None, refresh_tokens'[i].revoked
          PROVE  \E q \in Requests : Spent(q)' /\ picked'[q] = i
      <4>1. CASE i = picked[r]
        BY <1>10, <3>1, <4>1 DEF CommitRefresh
      <4>2. i # r
        BY <2>c, <3>5
      <4>3. CASE i # picked[r]
        BY <1>10, <2>c, <3>2, <3>5, <4>2, <4>3 DEF CommitRefresh, RotationAtomic
      <4> QED
        BY <4>1, <4>3
    <3> QED
      BY <3>4, <3>5 DEF RotationAtomic
  <2> QED
    BY <2>1, <2>2, <2>3, <2>4, <2>5, <2>6, <2>7, <2>8
<1>11. ASSUME NEW r \in Requests, RevokeToken(r)
      PROVE  IInv'
  <2> DEFINE old == refresh_tokens[picked[r]]
  <2>a. picked[r] \in Requests
    BY <1>11 DEF RevokeToken, LocalsInv, PickedInv
  <2>b. \A i \in Requests \ {picked[r]} : refresh_tokens'[i] = refresh_tokens[i]
    BY <1>11, <2>a DEF RevokeToken, TypeOK
  <2>c. \/ refresh_tokens' = refresh_tokens
        \/ /\ old # None
           /\ refresh_tokens'[picked[r]] \in Row
           /\ refresh_tokens'[picked[r]].token = old.token
           /\ refresh_tokens'[picked[r]].revoked
    <3>1. CASE old # None
      <4>1. refresh_tokens'[picked[r]] = [old EXCEPT !.revoked = TRUE]
        BY <1>11, <2>a, <3>1 DEF RevokeToken, TypeOK
      <4>2. old \in Row
        BY <2>a, <3>1 DEF TypeOK
      <4> QED
        BY <3>1, <4>1, <4>2
    <3> QED
      BY <1>11, <3>1 DEF RevokeToken
  <2>1. TypeOK'
    <3>1. refresh_tokens' \in [Requests -> Row \cup {None}]
      <4>1. \A i \in Requests : refresh_tokens'[i] \in Row \cup {None}
        BY <2>b, <2>c DEF TypeOK
      <4>2. refresh_tokens' = [i \in Requests |-> refresh_tokens'[i]]
        BY <1>11 DEF RevokeToken, TypeOK
      <4> QED
        BY <4>1, <4>2
    <3>2. pc' \in [Requests -> {"idle"} \cup Working \cup Finished]
      BY <1>11 DEF RevokeToken, TypeOK, Working, Finished, Answered
    <3> QED
      BY <1>11, <3>1, <3>2 DEF RevokeToken, TypeOK
  <2>2. LocalsInv'
    BY <1>11 DEF RevokeToken, LocalsInv, TypeOK
  <2>3. PickedInv'
    BY <1>11 DEF RevokeToken, PickedInv, TypeOK, LocalsInv, RowInv
  <2>4. RowInv'
    <3>1. \A i \in Requests : refresh_tokens'[i] # None =>
             refresh_tokens[i] # None /\ refresh_tokens'[i].token = refresh_tokens[i].token
      BY <2>b, <2>c
    <3>2. \A i \in Requests : pc[i] = "ok" => pc'[i] = "ok"
      BY <1>11 DEF RevokeToken, TypeOK
    <3> QED
      BY <1>11, <3>1, <3>2 DEF RevokeToken, RowInv
  <2>5. CommitInv'
    <3>1. \A i \in Requests : refresh_tokens[i] # None => refresh_tokens'[i] # None
      BY <2>b, <2>c
    <3>2. \A q \in Requests : pc'[q] = "commit" => pc[q] = "commit"
      BY <1>11 DEF RevokeToken, TypeOK
    <3>3. \A q \in Requests :
             pc[q] = "commit" /\ call[q].op = "refresh" => picked[q] \in Requests
      BY DEF PickedInv
    <3> QED
      BY <1>11, <3>1, <3>2, <3>3 DEF RevokeToken, CommitInv
  <2>6. EarlierInv'
    BY <1>11 DEF RevokeToken, EarlierInv, TypeOK, LocalsInv, PickedInv, RowInv,
                 RotationAtomic, Spent
  <2>7. BarredInv'
    BY <1>11 DEF RevokeToken, BarredInv, TypeOK, LocalsInv
  <2>8. RotationAtomic'
    <3>1. \A q \in Requests : Spent(q) => Spent(q)'
      BY <1>11 DEF RevokeToken, TypeOK, Spent
    <3>2. \A q \in Requests : Spent(q)' => Spent(q) \/ q = r
      BY <1>11 DEF RevokeToken, TypeOK, Spent
    <3>3. picked' = picked
      BY <1>11 DEF RevokeToken
    <3>4. refresh_tokens' # refresh_tokens => Spent(r)'
      BY <1>11 DEF RevokeToken, TypeOK, LocalsInv, Spent
    <3>5. ASSUME NEW q \in Requests, Spent(q)', refresh_tokens'[picked'[q]] # None
          PROVE  refresh_tokens'[picked'[q]].revoked
      <4>1. CASE q = r
        BY <1>11, <2>a, <2>c, <3>3, <3>5, <4>1 DEF RevokeToken, TypeOK, Spent
      <4>2. CASE q # r
        <5>1. Spent(q) /\ picked[q] \in Requests
          BY <3>2, <3>5, <4>2 DEF Spent, PickedInv
        <5> QED
          BY <2>b, <2>c, <3>3, <3>5, <5>1 DEF RotationAtomic
      <4> QED
        BY <4>1, <4>2
    <3>6. ASSUME NEW i \in Requests, refresh_tokens'[i] # None, refresh_tokens'[i].revoked
          PROVE  \E q \in Requests : Spent(q)' /\ picked'[q] = i
      <4>1. CASE i = picked[r] /\ refresh_tokens' # refresh_tokens
        BY <3>3, <3>4, <4>1
      <4>2. CASE refresh_tokens'[i] = refresh_tokens[i]
        BY <3>1, <3>3, <3>6, <4>2 DEF RotationAtomic
      <4> QED
        BY <2>b, <4>1, <4>2
    <3> QED
      BY <3>5, <3>6 DEF RotationAtomic
  <2> QED
    BY <2>1, <2>2, <2>3, <2>4, <2>5, <2>6, <2>7, <2>8
<1>12. ASSUME NEW r \in Requests, Fail(r)
      PROVE  IInv'
  <2>1. TypeOK'
    BY <1>12 DEF Fail, Working, TypeOK, LocalsInv, PickedInv, Working, Finished,
                 Answered
  <2>2. LocalsInv'
    BY <1>12 DEF Fail, Working, LocalsInv, TypeOK
  <2>3. PickedInv'
    BY <1>12 DEF Fail, Working, PickedInv, TypeOK, LocalsInv, RowInv
  <2>4. RowInv'
    BY <1>12 DEF Fail, Working, RowInv, TypeOK, LocalsInv, PickedInv, CommitInv
  <2>5. CommitInv'
    BY <1>12 DEF Fail, Working, CommitInv, TypeOK, LocalsInv, PickedInv, RowInv
  <2>6. EarlierInv'
    BY <1>12 DEF Fail, Working, EarlierInv, TypeOK, LocalsInv, PickedInv, RowInv,
                 RotationAtomic, Spent
  <2>7. BarredInv'
    BY <1>12 DEF Fail, Working, BarredInv, TypeOK, LocalsInv
  <2>8. RotationAtomic'
    BY <1>12 DEF Fail, Working, RotationAtomic, TypeOK, LocalsInv, PickedInv,
                 RowInv, CommitInv, Spent
  <2> QED
    BY <2>1, <2>2, <2>3, <2>4, <2>5, <2>6, <2>7, <2>8
<1>13. ASSUME NEW u \in Users, NEW active \in {"active", "inactive"}, UpdateUser(u, active)
      PROVE  IInv'
  <2>1. TypeOK'
    BY <1>13 DEF UpdateUser, TypeOK, LocalsInv, PickedInv, Working, Finished,
                 Answered
  <2>2. LocalsInv'
    BY <1>13 DEF UpdateUser, LocalsInv, TypeOK
  <2>3. PickedInv'
    BY <1>13 DEF UpdateUser, PickedInv, TypeOK, LocalsInv, RowInv
  <2>4. RowInv'
    BY <1>13 DEF UpdateUser, RowInv, TypeOK, LocalsInv, PickedInv, CommitInv
  <2>5. CommitInv'
    BY <1>13 DEF UpdateUser, CommitInv, TypeOK, LocalsInv, PickedInv, RowInv
  <2>6. EarlierInv'
    BY <1>13 DEF UpdateUser, EarlierInv, TypeOK, LocalsInv, PickedInv, RowInv,
                 RotationAtomic, Spent
  <2>7. BarredInv'
    BY <1>13 DEF UpdateUser, BarredInv, TypeOK, LocalsInv
  <2>8. RotationAtomic'
    BY <1>13 DEF UpdateUser, RotationAtomic, TypeOK, LocalsInv, PickedInv, RowInv,
                 CommitInv, Spent
  <2> QED
    BY <2>1, <2>2, <2>3, <2>4, <2>5, <2>6, <2>7, <2>8
<1>14. ASSUME NEW u \in Users, DeleteUser(u)
      PROVE  IInv'
  <2>1. TypeOK'
    BY <1>14 DEF DeleteUser, TypeOK, LocalsInv, PickedInv, Working, Finished,
                 Answered
  <2>2. LocalsInv'
    BY <1>14 DEF DeleteUser, LocalsInv, TypeOK
  <2>3. PickedInv'
    BY <1>14 DEF DeleteUser, PickedInv, TypeOK, LocalsInv, RowInv
  <2>4. RowInv'
    BY <1>14 DEF DeleteUser, RowInv, TypeOK, LocalsInv, PickedInv, CommitInv
  <2>5. CommitInv'
    BY <1>14 DEF DeleteUser, CommitInv, TypeOK, LocalsInv, PickedInv, RowInv
  <2>6. EarlierInv'
    BY <1>14 DEF DeleteUser, EarlierInv, TypeOK, LocalsInv, PickedInv, RowInv,
                 RotationAtomic, Spent
  <2>7. BarredInv'
    BY <1>14 DEF DeleteUser, BarredInv, TypeOK, LocalsInv
  <2>8. RotationAtomic'
    BY <1>14 DEF DeleteUser, RotationAtomic, TypeOK, LocalsInv, PickedInv, RowInv,
                 CommitInv, Spent
  <2> QED
    BY <2>1, <2>2, <2>3, <2>4, <2>5, <2>6, <2>7, <2>8
<1>15. ASSUME NEW u \in Users, NEW t \in Tenants, AddMember(u, t)
      PROVE  IInv'
  <2>1. TypeOK'
    BY <1>15 DEF AddMember, TypeOK, LocalsInv, PickedInv, Working, Finished,
                 Answered
  <2>2. LocalsInv'
    BY <1>15 DEF AddMember, LocalsInv, TypeOK
  <2>3. PickedInv'
    BY <1>15 DEF AddMember, PickedInv, TypeOK, LocalsInv, RowInv
  <2>4. RowInv'
    BY <1>15 DEF AddMember, RowInv, TypeOK, LocalsInv, PickedInv, CommitInv
  <2>5. CommitInv'
    BY <1>15 DEF AddMember, CommitInv, TypeOK, LocalsInv, PickedInv, RowInv
  <2>6. EarlierInv'
    BY <1>15 DEF AddMember, EarlierInv, TypeOK, LocalsInv, PickedInv, RowInv,
                 RotationAtomic, Spent
  <2>7. BarredInv'
    BY <1>15 DEF AddMember, BarredInv, TypeOK, LocalsInv
  <2>8. RotationAtomic'
    BY <1>15 DEF AddMember, RotationAtomic, TypeOK, LocalsInv, PickedInv, RowInv,
                 CommitInv, Spent
  <2> QED
    BY <2>1, <2>2, <2>3, <2>4, <2>5, <2>6, <2>7, <2>8
<1>16. ASSUME NEW u \in Users, NEW t \in Tenants, RemoveMember(u, t)
      PROVE  IInv'
  <2>1. TypeOK'
    BY <1>16 DEF RemoveMember, TypeOK, LocalsInv, PickedInv, Working, Finished,
                 Answered
  <2>2. LocalsInv'
    BY <1>16 DEF RemoveMember, LocalsInv, TypeOK
  <2>3. PickedInv'
    BY <1>16 DEF RemoveMember, PickedInv, TypeOK, LocalsInv, RowInv
  <2>4. RowInv'
    BY <1>16 DEF RemoveMember, RowInv, TypeOK, LocalsInv, PickedInv, CommitInv
  <2>5. CommitInv'
    BY <1>16 DEF RemoveMember, CommitInv, TypeOK, LocalsInv, PickedInv, RowInv
  <2>6. EarlierInv'
    BY <1>16 DEF RemoveMember, EarlierInv, TypeOK, LocalsInv, PickedInv, RowInv,
                 RotationAtomic, Spent
  <2>7. BarredInv'
    BY <1>16 DEF RemoveMember, BarredInv, TypeOK, LocalsInv
  <2>8. RotationAtomic'
    BY <1>16 DEF RemoveMember, RotationAtomic, TypeOK, LocalsInv, PickedInv,
                 RowInv, CommitInv, Spent
  <2> QED
    BY <2>1, <2>2, <2>3, <2>4, <2>5, <2>6, <2>7, <2>8
<1>17. ASSUME Tick
      PROVE  IInv'
  <2>1. TypeOK'
    BY <1>17 DEF Tick, TypeOK, LocalsInv, PickedInv, Working, Finished, Answered
  <2>2. LocalsInv'
    BY <1>17 DEF Tick, LocalsInv, TypeOK
  <2>3. PickedInv'
    BY <1>17 DEF Tick, PickedInv, TypeOK, LocalsInv, RowInv
  <2>4. RowInv'
    BY <1>17 DEF Tick, RowInv, TypeOK, LocalsInv, PickedInv, CommitInv
  <2>5. CommitInv'
    BY <1>17 DEF Tick, CommitInv, TypeOK, LocalsInv, PickedInv, RowInv
  <2>6. EarlierInv'
    BY <1>17 DEF Tick, EarlierInv, TypeOK, LocalsInv, PickedInv, RowInv,
                 RotationAtomic, Spent
  <2>7. BarredInv'
    BY <1>17 DEF Tick, BarredInv, TypeOK, LocalsInv
  <2>8. RotationAtomic'
    BY <1>17 DEF Tick, RotationAtomic, TypeOK, LocalsInv, PickedInv, RowInv,
                 CommitInv, Spent
  <2> QED
    BY <2>1, <2>2, <2>3, <2>4, <2>5, <2>6, <2>7, <2>8
<1>18. CASE UNCHANGED vars
  BY <1>18 DEF vars, TypeOK, LocalsInv, PickedInv, RowInv, CommitInv, EarlierInv,
               BarredInv, RotationAtomic, Spent
<1> QED
  BY <1>1, <1>2, <1>3, <1>4, <1>5, <1>6, <1>7, <1>8, <1>9, <1>10, <1>11, <1>12,
     <1>13, <1>14, <1>15, <1>16, <1>17, <1>18
     DEF Next, Arrivals, Serve, Accounts, Quiescent

-----------------------------------------------------------------------------
\* An empty service satisfies the invariant.
LEMMA InitiallyIInv == Init => IInv
BY NoneAssumption, TimeAssumption
   DEF Init, IInv, TypeOK, LocalsInv, PickedInv, RowInv, CommitInv, EarlierInv,
       BarredInv, RotationAtomic, Spent, Working, Finished

\* The invariant holds in every reachable state.
LEMMA AlwaysIInv == Spec => []IInv
BY InitiallyIInv, InductiveStep, PTL DEF Spec

\* The columns and the locals of every request always hold what their types say.
THEOREM TypeCorrect == Spec => []TypeOK
BY AlwaysIInv, PTL DEF IInv

\* A row that an answered refresh or logout has spent is not spent again by a
\* request that arrives later (AuthService.refresh and logout).
THEOREM SpentStaysSpent == Spec => []NoLateSpend
<1>1. IInv => NoLateSpend
  BY DEF IInv, EarlierInv, NoLateSpend, Spent, Spending
<1> QED
  BY <1>1, AlwaysIInv, PTL

\* A row is revoked exactly by the requests answered for it: AuthService.refresh
\* revokes the old row and stores the new one in one transaction.
THEOREM RotationIsAtomic == Spec => []RotationAtomic
BY AlwaysIInv, PTL DEF IInv

\* Neither AuthService.login nor AuthService.refresh serves a member who had
\* been removed from the tenant when the request arrived.
THEOREM RemovalShutsOut == Spec => []NoTokenAfterRemoval
<1>1. IInv => NoTokenAfterRemoval
  BY DEF IInv, BarredInv, NoTokenAfterRemoval
<1> QED
  BY <1>1, AlwaysIInv, PTL

\* Every row of refresh_tokens has its user (delete_user against the logins and
\* refreshes in flight).
THEOREM SessionsHaveUsers == Spec => []NoOrphanSession
<1>1. IInv => NoOrphanSession
  BY DEF IInv, RowInv, NoOrphanSession
<1> QED
  BY <1>1, AlwaysIInv, PTL

\* The only way a refresh token outlives its logout is that two sessions were
\* given one and the same string.
THEOREM LogoutIsFinalForDistinctTokens == Spec => []LogoutEndsTheSession
<1>1. IInv => LogoutEndsTheSession
  <2> SUFFICES ASSUME IInv,
                      NEW r \in Requests, NEW q \in Requests,
                      Refreshed(r), q \in preceding[r],
                      call[q].op = "logout", call[q].token = call[r].token
               PROVE  \E i, j \in Requests \ {r} : /\ i # j
                                                  /\ issued[i] = call[r].token
                                                  /\ issued[j] = call[r].token
    BY DEF LogoutEndsTheSession
  <2>1. pc[q] = "ok"
    BY DEF IInv, EarlierInv
  <2>2. picked[q] # picked[r]
    BY <2>1 DEF IInv, EarlierInv, Refreshed, Spent, Spending
  <2>3. /\ picked[r] \in Requests /\ issued[picked[r]] = call[r].token
        /\ picked[q] \in Requests /\ issued[picked[q]] = call[q].token
    BY <2>1 DEF IInv, PickedInv, Refreshed, Spending
  <2>4. picked[r] # r /\ picked[q] # r
    BY DEF IInv, PickedInv, EarlierInv, Refreshed, Spending
  <2> QED
    BY <2>2, <2>3, <2>4
<1> QED
  BY <1>1, AlwaysIInv, PTL

-----------------------------------------------------------------------------
(* That the endpoints implement Sessions.                                  *)

\* What the claims and the sessions need beyond IInv: a login picks no row, a
\* token request is for its token's tenant, a pair is issued for the tenant
\* asked for, and a row belongs to a login or a refresh.
SessionsInv ==
    \A r \in Requests :
        /\ pc[r] \in {"idle", "login", "decode", "select"} => picked[r] = None
        /\ pc[r] # "idle" /\ call[r].op = "login" => picked[r] = None
        /\ pc[r] # "idle" /\ call[r].op \in Spending => call[r].tenant = call[r].token.tenant
        /\ pc[r] \in {"commit", "ok"} /\ call[r].op \in Inserting
              => issued[r].tenant = call[r].tenant
        /\ refresh_tokens[r] # None => call[r].op \in Inserting

LEMMA SessionsInvStep == IInv /\ SessionsInv /\ [Next]_vars => SessionsInv'
<1> SUFFICES ASSUME IInv, SessionsInv, [Next]_vars PROVE SessionsInv'
  OBVIOUS
<1> USE NoneAssumption
        DEF IInv, TypeOK, LocalsInv, PickedInv, RowInv, SessionsInv, db, Goto, Scope, Token,
            Row, Call, Spending, Inserting
<1>1. ASSUME NEW r \in Requests, NEW u \in Users, NEW t \in Scope, ArriveLogin(r, u, t)
      PROVE  SessionsInv'
  BY <1>1 DEF ArriveLogin, Arrive
<1>2. ASSUME NEW r \in Requests, NEW op \in {"refresh", "logout"},
             NEW tok \in Handed, ArriveWithToken(r, op, tok)
      PROVE  SessionsInv'
  BY <1>2 DEF ArriveWithToken, Arrive
<1>3. ASSUME NEW r \in Requests, LoginCheckUser(r)
      PROVE  SessionsInv'
  BY <1>3 DEF LoginCheckUser
<1>4. ASSUME NEW r \in Requests, CheckMember(r)
      PROVE  SessionsInv'
  BY <1>4 DEF CheckMember
<1>5. ASSUME NEW r \in Requests, LoginIssue(r)
      PROVE  SessionsInv'
  BY <1>5 DEF LoginIssue, NewToken
<1>6. ASSUME NEW r \in Requests, CommitLogin(r)
      PROVE  SessionsInv'
  BY <1>6 DEF CommitLogin
<1>7. ASSUME NEW r \in Requests, DecodeToken(r)
      PROVE  SessionsInv'
  BY <1>7 DEF DecodeToken
<1>8. ASSUME NEW r \in Requests, SelectToken(r)
      PROVE  SessionsInv'
  BY <1>8 DEF SelectToken, Matching
<1>9. ASSUME NEW r \in Requests, RotateToken(r)
      PROVE  SessionsInv'
  BY <1>9 DEF RotateToken, NewToken
<1>10. ASSUME NEW r \in Requests, CommitRefresh(r)
      PROVE  SessionsInv'
  BY <1>10 DEF CommitRefresh, CommitInv
<1>11. ASSUME NEW r \in Requests, RevokeToken(r)
      PROVE  SessionsInv'
  BY <1>11 DEF RevokeToken
<1>12. ASSUME NEW r \in Requests, Fail(r)
      PROVE  SessionsInv'
  BY <1>12 DEF Fail, Working
<1>13. CASE Accounts
  <2>1. UNCHANGED <<pc, call, picked, issued>>
    BY <1>13 DEF Accounts, UpdateUser, DeleteUser, AddMember, RemoveMember
  <2>2. \A i \in Requests : refresh_tokens'[i] \in {refresh_tokens[i], None}
    <3>1. ASSUME NEW u \in Users, DeleteUser(u)
          PROVE  \A i \in Requests : refresh_tokens'[i] \in {refresh_tokens[i], None}
      BY <3>1 DEF DeleteUser
    <3>2. CASE UNCHANGED refresh_tokens
      BY <3>2
    <3> QED
      BY <1>13, <3>1, <3>2 DEF Accounts, UpdateUser, AddMember, RemoveMember
  <2> QED
    BY <2>1, <2>2
<1>14. CASE Tick
  BY <1>14 DEF Tick
<1>15. CASE UNCHANGED vars
  BY <1>15 DEF vars
<1> QED
  BY <1>1, <1>2, <1>3, <1>4, <1>5, <1>6, <1>7, <1>8, <1>9, <1>10, <1>11, <1>12,
     <1>13, <1>14, <1>15 DEF Next, Arrivals, Serve, Quiescent

LEMMA AlwaysSessionsInv == Spec => []SessionsInv
<1>1. Init => SessionsInv
  BY DEF Init, SessionsInv
<1> QED
  BY <1>1, AlwaysIInv, SessionsInvStep, PTL DEF Spec

\* A claim and a session are never None.
LEMMA ClaimIsSomething ==
    ASSUME NEW op \in {"login", "refresh", "logout"}, NEW u \in Users, NEW t \in Scope,
           NEW s \in Requests \cup {None}, NEW b \in {"asked", "cleared"}
    PROVE  [op |-> op, user |-> u, tenant |-> t, session |-> s, state |-> b] # None
BY PromiseAssumption DEF Promise!Claim, Promise!Scope, Scope

LEMMA ClaimHeld ==
    ASSUME IInv, SessionsInv, NEW r \in Requests,
           pc[r] \in {"member", "issue", "rotate", "revoke", "commit"}
    PROVE  /\ ClaimOf(r) = [op |-> call[r].op, user |-> call[r].sub, tenant |-> call[r].tenant,
                            session |-> picked[r],
                            state |-> IF pc[r] = "member" THEN "asked" ELSE "cleared"]
           /\ ClaimOf(r) # None
<1>1. ClaimOf(r) = [op |-> call[r].op, user |-> call[r].sub, tenant |-> call[r].tenant,
                    session |-> picked[r],
                            state |-> IF pc[r] = "member" THEN "asked" ELSE "cleared"]
  BY DEF ClaimOf
<1>2. /\ call[r].op \in {"login", "refresh", "logout"}
      /\ call[r].sub \in Users /\ call[r].tenant \in Scope
      /\ picked[r] \in Requests \cup {None}
  BY DEF IInv, TypeOK, LocalsInv, Call
<1> QED
  BY <1>1, <1>2, ClaimIsSomething

LEMMA SessionHeld ==
    ASSUME IInv, SessionsInv, NEW i \in Requests, refresh_tokens[i] # None
    PROVE  /\ SessionOf(i) = [user |-> call[i].sub, tenant |-> call[i].tenant,
                              state |-> IF refresh_tokens[i].revoked THEN "ended" ELSE "open"]
           /\ SessionOf(i) # None
<1>1. /\ pc[i] = "ok" /\ call[i] \in Call /\ call[i].op \in Inserting
      /\ refresh_tokens[i].token = issued[i]
      /\ issued[i].sub = call[i].sub /\ issued[i].tenant = call[i].tenant
  BY DEF IInv, LocalsInv, RowInv, SessionsInv
<1>2. SessionOf(i) = [user |-> call[i].sub, tenant |-> call[i].tenant,
                      state |-> IF refresh_tokens[i].revoked THEN "ended" ELSE "open"]
  BY <1>1 DEF SessionOf
<1>3. SessionOf(i) \in Promise!Session
  BY <1>1, <1>2 DEF Promise!Session, Promise!Scope, Scope, Call
<1> QED
  BY <1>2, <1>3, PromiseAssumption

\* A step of request r leaves the sessions, and the claims of the others, alone.
Undisturbed(r) ==
    /\ UNCHANGED <<account, membership>>
    /\ \A i \in Requests : SessionOf(i)' = SessionOf(i)
    /\ \A q \in Requests \ {r} : ClaimOf(q)' = ClaimOf(q)

LEMMA NobodyAnswered ==
    ASSUME IInv, NEW r \in Requests, NEW label, Goto(r, label), pc[r] # "ok", label # "ok",
           UNCHANGED <<db, call>>,
           \A q \in Requests \ {r} : picked'[q] = picked[q]
    PROVE  Undisturbed(r)
BY DEF IInv, TypeOK, Goto, db, SessionOf, ClaimOf, Undisturbed

LEMMA Stutters ==
    ASSUME NEW r \in Requests, Undisturbed(r), ClaimOf(r)' = ClaimOf(r)
    PROVE  UNCHANGED Promise!vars
BY DEF Undisturbed, Promise!vars, Promise!directory

LEMMA ClaimBecomes ==
    ASSUME NEW r \in Requests, Undisturbed(r), NEW c, ClaimOf(r)' = c
    PROVE  /\ [q \in Requests |-> ClaimOf(q)]' = [[q \in Requests |-> ClaimOf(q)] EXCEPT ![r] = c]
           /\ UNCHANGED <<Promise!directory, [i \in Requests |-> SessionOf(i)]>>
BY DEF Undisturbed, Promise!directory

LEMMA Withdraws ==
    ASSUME NEW r \in Requests, Undisturbed(r), ClaimOf(r) # None, ClaimOf(r)' = None
    PROVE  Promise!Step(r)
<1>1. Promise!Withdraw(r)
  BY ClaimBecomes DEF Promise!Withdraw
<1> QED
  BY <1>1 DEF Promise!Step

\* Statements that are no more than a stutter, or the end of a claim.
LEMMA QuietStep ==
    ASSUME IInv, SessionsInv, NEW r \in Requests,
           \/ \E u \in Users, t \in Scope : ArriveLogin(r, u, t)
           \/ \E op \in {"refresh", "logout"}, tok \in Handed : ArriveWithToken(r, op, tok)
           \/ LoginIssue(r) \/ DecodeToken(r) \/ RotateToken(r) \/ Fail(r)
    PROVE  UNCHANGED Promise!vars \/ Promise!Step(r)
<1> USE DEF IInv, TypeOK, Goto
<1>1. ASSUME NEW u \in Users, NEW t \in Scope, ArriveLogin(r, u, t)
      PROVE  UNCHANGED Promise!vars
  <2>1. Undisturbed(r)
    BY <1>1 DEF ArriveLogin, Arrive, db, SessionOf, ClaimOf, Undisturbed
  <2>2. ClaimOf(r)' = ClaimOf(r)
    BY <1>1 DEF ArriveLogin, Arrive, ClaimOf
  <2> QED
    BY <2>1, <2>2, Stutters
<1>2. ASSUME NEW op \in {"refresh", "logout"}, NEW tok \in Handed, ArriveWithToken(r, op, tok)
      PROVE  UNCHANGED Promise!vars
  <2>1. Undisturbed(r)
    BY <1>2 DEF ArriveWithToken, Arrive, db, SessionOf, ClaimOf, Undisturbed
  <2>2. ClaimOf(r)' = ClaimOf(r)
    BY <1>2 DEF ArriveWithToken, Arrive, ClaimOf
  <2> QED
    BY <2>1, <2>2, Stutters
<1>3. CASE \/ LoginIssue(r) \/ DecodeToken(r) \/ RotateToken(r) \/ Fail(r)
  <2>1. /\ \E label : Goto(r, label) /\ label # "ok"
        /\ pc[r] # "ok"
        /\ UNCHANGED <<db, call, picked>>
    BY <1>3 DEF LoginIssue, DecodeToken, RotateToken, Fail, Working
  <2>2. Undisturbed(r)
    BY <2>1, NobodyAnswered
  <2>3. ClaimOf(r)' = ClaimOf(r) \/ ClaimOf(r)' = None
    BY <1>3 DEF LoginIssue, DecodeToken, RotateToken, Fail, Working, ClaimOf
  <2> QED
    BY <2>2, <2>3, Stutters, Withdraws
<1> QED
  BY <1>1, <1>2, <1>3

\* A login that passes the check of is_active is a claim of Sessions.
LEMMA CheckedLogin ==
    ASSUME IInv, SessionsInv, NEW r \in Requests, LoginCheckUser(r)
    PROVE  UNCHANGED Promise!vars \/ Promise!Step(r)
<1>1. /\ \E label : Goto(r, label) /\ label # "ok"
      /\ pc[r] = "login" /\ pc \in [Requests -> {"idle"} \cup Working \cup Finished]
      /\ call[r].op = "login" /\ call[r].sub \in Users /\ call[r].tenant \in Scope
      /\ UNCHANGED <<db, call, picked>>
  BY DEF LoginCheckUser, IInv, TypeOK, LocalsInv, Call, Goto
<1>2. Undisturbed(r)
  BY <1>1, NobodyAnswered
<1>3. ClaimOf(r) = None
  BY <1>1 DEF ClaimOf
<1>4. CASE pc'[r] = "refused"
  BY <1>1, <1>2, <1>3, <1>4, Stutters DEF ClaimOf
<1>5. CASE pc'[r] # "refused"
  <2>1. /\ account[call[r].sub] = "active"
        /\ pc'[r] = IF call[r].tenant = NoTenant THEN "issue" ELSE "member"
    BY <1>1, <1>5 DEF LoginCheckUser, Goto
  <2>2. picked[r] = None
    BY <1>1 DEF SessionsInv
  <2>3. ClaimOf(r)' = [op |-> "login", user |-> call[r].sub, tenant |-> call[r].tenant,
                       session |-> None,
                       state |-> IF call[r].tenant = NoTenant THEN "cleared" ELSE "asked"]
    BY <1>1, <2>1, <2>2 DEF ClaimOf
  <2>4. ClaimOf(r)' # None
    BY <1>1, <2>3, ClaimIsSomething
  <2>5. Promise!Login(r)
    BY <1>1, <1>2, <2>1, <2>3, ClaimBecomes
       DEF Promise!Login, Undisturbed, Promise!directory, Promise!Scope, Scope
  <2> QED
    BY <1>3, <2>4, <2>5 DEF Promise!Step
<1> QED
  BY <1>4, <1>5

\* A membership found active clears the claim; another one ends it.
LEMMA CheckedMember ==
    ASSUME IInv, SessionsInv, NEW r \in Requests, CheckMember(r)
    PROVE  Promise!Step(r)
<1> USE DEF IInv, TypeOK, LocalsInv, Goto
<1>1. /\ \E label : Goto(r, label) /\ label # "ok"
      /\ pc[r] = "member"
      /\ UNCHANGED <<db, call, picked>>
  <2>1. PICK label \in {"refused", "issue", "rotate"} : Goto(r, label)
    BY DEF CheckMember
  <2> QED
    BY <2>1 DEF CheckMember
<1>2. Undisturbed(r)
  BY <1>1, NobodyAnswered
<1>3. ClaimOf(r) # None
  BY <1>1, ClaimHeld
<1>4. CASE pc'[r] = "refused"
  BY <1>2, <1>3, <1>4, Withdraws DEF ClaimOf
<1>5. CASE pc'[r] # "refused"
  <2>1. /\ membership[<<call[r].sub, call[r].tenant>>] = "active"
        /\ pc'[r] \in {"issue", "rotate"}
    BY <1>5 DEF CheckMember
  <2>2. /\ ClaimOf(r) = [op |-> call[r].op, user |-> call[r].sub, tenant |-> call[r].tenant,
                         session |-> picked[r], state |-> "asked"]
        /\ ClaimOf(r)' = [op |-> call[r].op, user |-> call[r].sub, tenant |-> call[r].tenant,
                          session |-> picked[r], state |-> "cleared"]
    BY <1>1, <2>1 DEF ClaimOf
  <2>3. Promise!Clear(r)
    <3>1. ClaimOf(r)' = [ClaimOf(r) EXCEPT !.state = "cleared"]
      BY <2>2
    <3>2. [q \in Requests |-> ClaimOf(q)]'
          = [[q \in Requests |-> ClaimOf(q)] EXCEPT ![r] = [ClaimOf(r) EXCEPT !.state = "cleared"]]
      BY <1>2, <3>1, ClaimBecomes
    <3>3. UNCHANGED <<Promise!directory, [i \in Requests |-> SessionOf(i)]>>
      BY <1>2, ClaimBecomes
    <3>4. /\ ClaimOf(r).state = "asked"
          /\ membership[<<ClaimOf(r).user, ClaimOf(r).tenant>>] = "active"
      <4>1. ClaimOf(r).user = call[r].sub /\ ClaimOf(r).tenant = call[r].tenant
        BY <2>2
      <4> QED
        BY <2>1, <2>2, <4>1
    <3> QED
      BY <3>2, <3>3, <3>4 DEF Promise!Clear
  <2> QED
    BY <1>3, <2>2, <2>3 DEF Promise!Step
<1> QED
  BY <1>4, <1>5

\* A row that is found unrevoked is an open session of the token's user and tenant.
LEMMA SelectedToken ==
    ASSUME IInv, SessionsInv, NEW r \in Requests, SelectToken(r)
    PROVE  UNCHANGED Promise!vars \/ Promise!Step(r)
<1> USE DEF IInv, TypeOK, LocalsInv, Goto
<1>1. /\ \E label : Goto(r, label) /\ label # "ok"
      /\ pc[r] = "select" /\ call[r] \in Call /\ call[r].op \in Spending
      /\ UNCHANGED <<db, call>>
      /\ \A q \in Requests \ {r} : picked'[q] = picked[q]
  BY DEF SelectToken
<1>2. Undisturbed(r)
  BY <1>1, NobodyAnswered
<1>3. ClaimOf(r) = None
  BY <1>1 DEF ClaimOf
<1>4. CASE pc'[r] = "refused"
  BY <1>2, <1>3, <1>4, Stutters DEF ClaimOf
<1>5. CASE pc'[r] # "refused"
  <2>1. PICK i \in Matching(r) :
            /\ picked' = [picked EXCEPT ![r] = i]
            /\ Goto(r, IF call[r].op = "logout" THEN "revoke"
                       ELSE IF call[r].tenant = NoTenant THEN "rotate"
                       ELSE "member")
    BY <1>5 DEF SelectToken
  <2>2. /\ i \in Requests
        /\ SessionOf(i) = [user |-> call[r].sub, tenant |-> call[r].tenant, state |-> "open"]
    BY <1>1, <2>1 DEF Matching, SessionOf, SessionsInv
  <2>3. ClaimOf(r)' = [op |-> call[r].op, user |-> call[r].sub, tenant |-> call[r].tenant,
                       session |-> i,
                       state |-> IF call[r].op = "logout" \/ call[r].tenant = NoTenant
                                 THEN "cleared" ELSE "asked"]
    BY <1>1, <2>1, <2>2 DEF ClaimOf, Spending
  <2>4. SessionOf(i) # None /\ ClaimOf(r)' # None
    <3>1. refresh_tokens[i] # None
      BY <2>1 DEF Matching
    <3> QED
      BY <1>1, <2>2, <2>3, <3>1, ClaimIsSomething, SessionHeld DEF Call, Spending
  <2>5. Promise!Present(r)
    <3>1. SessionOf(i).user = call[r].sub /\ SessionOf(i).tenant = call[r].tenant
          /\ SessionOf(i).state = "open"
      BY <2>2
    <3>2. [q \in Requests |-> ClaimOf(q)]' =
              [[q \in Requests |-> ClaimOf(q)] EXCEPT ![r] =
                  [op |-> call[r].op, user |-> SessionOf(i).user,
                   tenant |-> SessionOf(i).tenant, session |-> i,
                   state |-> IF call[r].op = "logout" \/ SessionOf(i).tenant = NoTenant
                             THEN "cleared" ELSE "asked"]]
      BY <1>2, <2>3, <3>1, ClaimBecomes
    <3>3. UNCHANGED <<Promise!directory, [j \in Requests |-> SessionOf(j)]>>
      BY <1>2, ClaimBecomes
    <3>4. [j \in Requests |-> SessionOf(j)][i] = SessionOf(i)
      BY <2>2
    <3>5. call[r].op \in {"refresh", "logout"}
      BY <1>1 DEF Spending
    <3> QED
      BY <2>2, <2>4, <3>1, <3>2, <3>3, <3>4, <3>5 DEF Promise!Present
  <2> QED
    BY <1>3, <2>4, <2>5 DEF Promise!Step
<1> QED
  BY <1>4, <1>5

-----------------------------------------------------------------------------
\* The sessions, or the claims, when some of them change.
LEMMA ClaimChanges ==
    ASSUME NEW r \in Requests, NEW c, ClaimOf(r)' = c,
           \A q \in Requests \ {r} : ClaimOf(q)' = ClaimOf(q)
    PROVE  [q \in Requests |-> ClaimOf(q)]' = [[q \in Requests |-> ClaimOf(q)] EXCEPT ![r] = c]
OBVIOUS

LEMMA SessionChanges ==
    ASSUME NEW s \in Requests, NEW v, SessionOf(s)' = v,
           \A i \in Requests \ {s} : SessionOf(i)' = SessionOf(i)
    PROVE  [i \in Requests |-> SessionOf(i)]'
           = [[i \in Requests |-> SessionOf(i)] EXCEPT ![s] = v]
OBVIOUS

LEMMA SessionsChange ==
    ASSUME NEW s \in Requests, NEW r \in Requests \ {s}, NEW v, NEW w,
           SessionOf(s)' = v, SessionOf(r)' = w,
           \A i \in Requests \ {r, s} : SessionOf(i)' = SessionOf(i)
    PROVE  [i \in Requests |-> SessionOf(i)]'
           = [[i \in Requests |-> SessionOf(i)] EXCEPT ![s] = v, ![r] = w]
OBVIOUS

LEMMA RowIsSomething ==
    ASSUME NEW tok \in Token, NEW b \in BOOLEAN
    PROVE  [token |-> tok, revoked |-> b] # None
BY NoneAssumption DEF Row

\* The commit of a login opens the session that was claimed.
LEMMA LoginOpens ==
    ASSUME IInv, SessionsInv, NEW r \in Requests, CommitLogin(r)
    PROVE  Promise!Step(r)
<1>1. /\ pc[r] = "commit" /\ call[r].op = "login" /\ refresh_tokens[r] = None
      /\ account[call[r].sub] # "deleted"
      /\ issued[r].sub = call[r].sub /\ issued[r].tenant = call[r].tenant
      /\ issued[r] \in Token
  BY DEF CommitLogin, IInv, LocalsInv, RowInv, CommitInv, SessionsInv, Inserting
<1>2. ClaimOf(r) # None /\ ClaimOf(r)' = None
  BY <1>1, ClaimHeld DEF CommitLogin, ClaimOf, Goto, IInv, TypeOK
<1>3. /\ ClaimOf(r).op = "login" /\ ClaimOf(r).state = "cleared"
      /\ ClaimOf(r).user = call[r].sub /\ ClaimOf(r).tenant = call[r].tenant
  BY <1>1, ClaimHeld
<1>4. SessionOf(r) = None
  BY <1>1 DEF SessionOf
<1>5. /\ refresh_tokens'[r] = [token |-> issued[r], revoked |-> FALSE]
      /\ refresh_tokens'[r] # None
      /\ \A i \in Requests \ {r} :
             /\ refresh_tokens'[i] = refresh_tokens[i]
             /\ pc'[i] = pc[i] /\ call'[i] = call[i] /\ picked'[i] = picked[i]
  BY <1>1, RowIsSomething DEF CommitLogin, Goto, IInv, TypeOK
<1>6. SessionOf(r)' = Promise!Opened(ClaimOf(r))
  BY <1>1, <1>3, <1>5 DEF SessionOf, Promise!Opened
<1>7. \A i \in Requests \ {r} : SessionOf(i)' = SessionOf(i) /\ ClaimOf(i)' = ClaimOf(i)
  BY <1>5 DEF SessionOf, ClaimOf
<1>8. /\ [i \in Requests |-> SessionOf(i)]'
         = [[i \in Requests |-> SessionOf(i)] EXCEPT ![r] = Promise!Opened(ClaimOf(r))]
      /\ [q \in Requests |-> ClaimOf(q)]' = [[q \in Requests |-> ClaimOf(q)] EXCEPT ![r] = None]
  BY <1>2, <1>6, <1>7, ClaimChanges, SessionChanges
<1>9. Promise!Answer(r)
  BY <1>1, <1>3, <1>4, <1>8 DEF Promise!Answer, Promise!Open, Promise!directory, CommitLogin
<1> QED
  BY <1>2, <1>9 DEF Promise!Step

\* The commit of a refresh ends the session it was shown and opens the next.
LEMMA RefreshContinues ==
    ASSUME IInv, SessionsInv, NEW r \in Requests, CommitRefresh(r)
    PROVE  Promise!Step(r)
<1>0. PICK s \in Requests \ {r} : picked[r] = s
  BY DEF CommitRefresh, IInv, LocalsInv, PickedInv, Spending
<1>1. /\ pc[r] = "commit" /\ call[r].op = "refresh" /\ refresh_tokens[r] = None
      /\ s \in Requests \ {r} /\ refresh_tokens[s] \in Row /\ refresh_tokens[s] # None
      /\ issued[r].sub = call[r].sub /\ issued[r].tenant = call[r].tenant
      /\ issued[r] \in Token
  BY <1>0 DEF CommitRefresh, IInv, TypeOK, LocalsInv, PickedInv, RowInv, CommitInv, SessionsInv,
         Inserting, Spending
<1>2. ClaimOf(r) # None /\ ClaimOf(r)' = None
  BY <1>1, ClaimHeld DEF CommitRefresh, ClaimOf, Goto, IInv, TypeOK
<1>3. /\ ClaimOf(r).op = "refresh" /\ ClaimOf(r).state = "cleared" /\ ClaimOf(r).session = s
      /\ ClaimOf(r).user = call[r].sub /\ ClaimOf(r).tenant = call[r].tenant
  BY <1>0, <1>1, ClaimHeld
<1>4. SessionOf(r) = None
  BY <1>1 DEF SessionOf
<1>5. /\ refresh_tokens'[r] = [token |-> issued[r], revoked |-> FALSE]
      /\ refresh_tokens'[s].token = refresh_tokens[s].token /\ refresh_tokens'[s].revoked
      /\ refresh_tokens'[r] # None /\ refresh_tokens'[s] # None
      /\ \A i \in Requests \ {r, s} : refresh_tokens'[i] = refresh_tokens[i]
      /\ \A i \in Requests \ {r} :
             pc'[i] = pc[i] /\ call'[i] = call[i] /\ picked'[i] = picked[i]
  <2>1. /\ refresh_tokens'[r] = [token |-> issued[r], revoked |-> FALSE]
        /\ refresh_tokens'[s] = [refresh_tokens[s] EXCEPT !.revoked = TRUE]
        /\ \A i \in Requests \ {r, s} : refresh_tokens'[i] = refresh_tokens[i]
    BY <1>0, <1>1 DEF CommitRefresh, IInv, TypeOK
  <2>2. /\ refresh_tokens'[s] = [token |-> refresh_tokens[s].token, revoked |-> TRUE]
        /\ refresh_tokens'[s].token = refresh_tokens[s].token /\ refresh_tokens'[s].revoked
    BY <1>1, <2>1 DEF Row
  <2>3. refresh_tokens'[r] # None /\ refresh_tokens'[s] # None
    BY <1>1, <2>1, <2>2, RowIsSomething DEF Row
  <2>4. \A i \in Requests \ {r} :
             pc'[i] = pc[i] /\ call'[i] = call[i] /\ picked'[i] = picked[i]
    BY DEF CommitRefresh, Goto, IInv, TypeOK
  <2> QED
    BY <2>1, <2>2, <2>3, <2>4
<1>6. SessionOf(r)' = Promise!Opened(ClaimOf(r))
  BY <1>1, <1>3, <1>5 DEF SessionOf, Promise!Opened
<1>7. SessionOf(s)' = Promise!Ended(SessionOf(s))
  <2>1. SessionOf(s)' = [user |-> refresh_tokens[s].token.sub,
                         tenant |-> refresh_tokens[s].token.tenant, state |-> "ended"]
    BY <1>1, <1>5 DEF SessionOf
  <2>2. /\ SessionOf(s).user = refresh_tokens[s].token.sub
        /\ SessionOf(s).tenant = refresh_tokens[s].token.tenant
    BY <1>1 DEF SessionOf
  <2> QED
    BY <2>1, <2>2 DEF Promise!Ended
<1>8. /\ \A i \in Requests \ {r, s} : SessionOf(i)' = SessionOf(i)
      /\ \A i \in Requests \ {r} : ClaimOf(i)' = ClaimOf(i)
  BY <1>5 DEF SessionOf, ClaimOf
<1>9. SessionOf(s).state # "gone"
  BY <1>1, SessionHeld
<1>10. [i \in Requests |-> SessionOf(i)]'
       = [[i \in Requests |-> SessionOf(i)] EXCEPT
              ![s] = Promise!Ended(SessionOf(s)), ![r] = Promise!Opened(ClaimOf(r))]
  BY <1>1, <1>6, <1>7, <1>8, SessionsChange
<1>11. Promise!Continue(r)
  BY <1>1, <1>3, <1>4, <1>9, <1>10 DEF Promise!Continue
<1>12. Promise!Answer(r)
  BY <1>2, <1>8, <1>11, ClaimChanges DEF Promise!Answer, Promise!directory, CommitRefresh
<1> QED
  BY <1>2, <1>12 DEF Promise!Step

\* A logout ends the session it was shown, unless the session went with its user.
LEMMA LogoutEnds ==
    ASSUME IInv, SessionsInv, NEW r \in Requests, RevokeToken(r)
    PROVE  Promise!Step(r)
<1>0. PICK s \in Requests \ {r} : picked[r] = s
  BY DEF RevokeToken, IInv, LocalsInv, PickedInv, Spending
<1>1. /\ pc[r] = "revoke" /\ call[r].op = "logout" /\ refresh_tokens[r] = None
  BY DEF RevokeToken, IInv, LocalsInv, RowInv
<1>2. ClaimOf(r) # None /\ ClaimOf(r)' = None
  BY <1>1, ClaimHeld DEF RevokeToken, ClaimOf, Goto, IInv, TypeOK
<1>3. CASE refresh_tokens[s] = None
  <2>1. Undisturbed(r)
    BY <1>0, <1>1, <1>3, NobodyAnswered DEF RevokeToken, db
  <2> QED
    BY <1>2, <2>1, Withdraws
<1>4. CASE refresh_tokens[s] # None
  <2>1. ClaimOf(r).op = "logout" /\ ClaimOf(r).session = s
    BY <1>0, <1>1, ClaimHeld
  <2>2. /\ refresh_tokens'[s] = [refresh_tokens[s] EXCEPT !.revoked = TRUE]
        /\ \A i \in Requests \ {s} : refresh_tokens'[i] = refresh_tokens[i]
        /\ \A i \in Requests \ {r} : pc'[i] = pc[i]
        /\ UNCHANGED <<call, picked>>
    BY <1>0, <1>1, <1>4 DEF RevokeToken, Goto, IInv, TypeOK
  <2>3. refresh_tokens[s] \in Row
    BY <1>1, <1>4 DEF IInv, TypeOK
  <2>4. /\ refresh_tokens'[s] = [token |-> refresh_tokens[s].token, revoked |-> TRUE]
        /\ refresh_tokens'[s].token = refresh_tokens[s].token /\ refresh_tokens'[s].revoked
    BY <2>2, <2>3 DEF Row
  <2>a. refresh_tokens'[s] # None
    BY <2>3, <2>4, RowIsSomething DEF Row
  <2>5. SessionOf(s)' = Promise!Ended(SessionOf(s))
    <3>1. SessionOf(s)' = [user |-> refresh_tokens[s].token.sub,
                           tenant |-> refresh_tokens[s].token.tenant, state |-> "ended"]
      BY <2>4, <2>a DEF SessionOf
    <3>2. /\ SessionOf(s).user = refresh_tokens[s].token.sub
          /\ SessionOf(s).tenant = refresh_tokens[s].token.tenant
      BY <1>4 DEF SessionOf
    <3> QED
      BY <3>1, <3>2 DEF Promise!Ended
  <2>6. SessionOf(r)' = SessionOf(r)
    BY <1>1, <2>2 DEF SessionOf
  <2>7. /\ \A i \in Requests \ {s} : SessionOf(i)' = SessionOf(i)
        /\ \A i \in Requests \ {r} : ClaimOf(i)' = ClaimOf(i)
    BY <2>2, <2>6 DEF SessionOf, ClaimOf
  <2>8. SessionOf(s).state # "gone"
    BY <1>1, <1>4, SessionHeld
  <2>9. [i \in Requests |-> SessionOf(i)]'
        = [[i \in Requests |-> SessionOf(i)] EXCEPT ![s] = Promise!Ended(SessionOf(s))]
    BY <1>1, <2>5, <2>7, SessionChanges
  <2>10. Promise!End(r)
    BY <1>1, <2>1, <2>8, <2>9 DEF Promise!End
  <2>11. Promise!Answer(r)
    BY <1>2, <2>7, <2>10, ClaimChanges DEF Promise!Answer, Promise!directory, RevokeToken
  <2> QED
    BY <1>2, <2>11 DEF Promise!Step
<1> QED
  BY <1>3, <1>4

\* Users and memberships change as Directory says, and the sessions of a deleted
\* user are gone.
LEMMA AccountsChange ==
    ASSUME IInv, SessionsInv, Accounts
    PROVE  Promise!DirectoryChange \/ \E u \in Users : Promise!Delete(u)
<1>1. /\ \A i \in Requests : ClaimOf(i)' = ClaimOf(i)
      /\ UNCHANGED <<pc, call>>
  BY DEF Accounts, UpdateUser, DeleteUser, AddMember, RemoveMember, ClaimOf
<1>2. UNCHANGED [q \in Requests |-> ClaimOf(q)]
  BY <1>1
<1>3. ASSUME UNCHANGED refresh_tokens
      PROVE  UNCHANGED [i \in Requests |-> SessionOf(i)]
  BY <1>1, <1>3 DEF SessionOf
<1>4. ASSUME NEW u \in Users, NEW active \in {"active", "inactive"}, UpdateUser(u, active)
      PROVE  Promise!DirectoryChange
  <2>1. Promise!Directory!SetActive(u, active)
    BY <1>4 DEF UpdateUser, Promise!Directory!SetActive
  <2> QED
    BY <1>2, <1>3, <1>4, <2>1 DEF UpdateUser, Promise!DirectoryChange, Promise!Directory!Change
<1>5. ASSUME NEW u \in Users, NEW t \in Tenants, AddMember(u, t)
      PROVE  Promise!DirectoryChange
  <2>1. Promise!Directory!Admit(u, t)
    BY <1>5 DEF AddMember, Promise!Directory!Admit
  <2> QED
    BY <1>2, <1>3, <1>5, <2>1 DEF AddMember, Promise!DirectoryChange, Promise!Directory!Change
<1>6. ASSUME NEW u \in Users, NEW t \in Tenants, RemoveMember(u, t)
      PROVE  Promise!DirectoryChange
  <2>1. Promise!Directory!Dismiss(u, t)
    BY <1>6 DEF RemoveMember, Promise!Directory!Dismiss
  <2> QED
    BY <1>2, <1>3, <1>6, <2>1 DEF RemoveMember, Promise!DirectoryChange, Promise!Directory!Change
<1>7. ASSUME NEW u \in Users, DeleteUser(u)
      PROVE  Promise!Delete(u)
  <2>1. Promise!Directory!Delete(u)
    BY <1>7 DEF DeleteUser, Promise!Directory!Delete
  <2>2. ASSUME NEW i \in Requests
        PROVE  SessionOf(i)' = IF SessionOf(i) # None /\ SessionOf(i).user = u
                               THEN [SessionOf(i) EXCEPT !.state = "gone"] ELSE SessionOf(i)
    <3>1. CASE refresh_tokens[i] # None
      <4>1. /\ pc[i] = "ok" /\ call[i].op # "logout"
            /\ refresh_tokens[i].token.sub = call[i].sub
        BY <3>1 DEF IInv, LocalsInv, RowInv, SessionsInv, Inserting
      <4>2. /\ SessionOf(i) # None /\ SessionOf(i).user = call[i].sub
            /\ SessionOf(i).tenant = call[i].tenant
        BY <3>1, SessionHeld
      <4>3. CASE call[i].sub = u
        <5>1. refresh_tokens'[i] = None
          BY <1>7, <3>1, <4>1, <4>3 DEF DeleteUser
        <5>2. SessionOf(i)' = [user |-> call[i].sub, tenant |-> call[i].tenant, state |-> "gone"]
          BY <1>1, <4>1, <5>1 DEF SessionOf
        <5> QED
          BY <3>1, <4>2, <4>3, <5>2, SessionHeld
      <4>4. CASE call[i].sub # u
        BY <1>1, <1>7, <3>1, <4>1, <4>2, <4>4 DEF DeleteUser, SessionOf
      <4> QED
        BY <4>3, <4>4
    <3>2. CASE refresh_tokens[i] = None
      <4>1. SessionOf(i)' = SessionOf(i)
        BY <1>1, <1>7, <3>2 DEF DeleteUser, SessionOf
      <4>2. \/ SessionOf(i) = None
            \/ SessionOf(i) = [user |-> call[i].sub, tenant |-> call[i].tenant, state |-> "gone"]
        BY <3>2 DEF SessionOf
      <4> QED
        BY <4>1, <4>2
    <3> QED
      BY <3>1, <3>2
  <2>3. [i \in Requests |-> SessionOf(i)]' =
            [i \in Requests |-> IF SessionOf(i) # None /\ SessionOf(i).user = u
                                THEN [SessionOf(i) EXCEPT !.state = "gone"] ELSE SessionOf(i)]
    BY <2>2
  <2> QED
    BY <1>2, <2>1, <2>3 DEF Promise!Delete
<1> QED
  BY <1>4, <1>5, <1>6, <1>7 DEF Accounts

LEMMA SessionsStep == IInv /\ SessionsInv /\ [Next]_vars => [Promise!Next]_(Promise!vars)
<1> SUFFICES ASSUME IInv, SessionsInv, [Next]_vars PROVE [Promise!Next]_(Promise!vars)
  OBVIOUS
<1>1. ASSUME NEW r \in Requests, Arrivals(r) \/ Serve(r) \/ Fail(r)
      PROVE  UNCHANGED Promise!vars \/ Promise!Step(r)
  BY <1>1, QuietStep, CheckedLogin, CheckedMember, SelectedToken, LoginOpens,
     RefreshContinues, LogoutEnds DEF Arrivals, Serve
<1>2. CASE Accounts
  BY <1>2, AccountsChange DEF Promise!Next
<1>3. CASE Tick \/ UNCHANGED vars
  <2>1. UNCHANGED <<account, membership, refresh_tokens, pc, call, picked>>
    BY <1>3 DEF Tick, vars, db
  <2> QED
    BY <2>1 DEF Promise!vars, Promise!directory, SessionOf, ClaimOf
<1> QED
  BY <1>1, <1>2, <1>3 DEF Next, Quiescent, Promise!Next

\* The token endpoints keep the promise of Sessions: AuthService.login, refresh
\* and logout, statement by statement and against the deletions and removals in
\* between, open, continue and end sessions only on claims that were good when made.
THEOREM SessionsAreImplemented == Spec => ImplementsSessions
<1>1. Init => Promise!Init
  BY DEF Init, Promise!Init, Promise!Directory!Init, SessionOf, ClaimOf
<1> QED
  BY <1>1, AlwaysSessionsInv, AlwaysIInv, SessionsStep, PTL DEF Spec, ImplementsSessions, Promise!Spec

-----------------------------------------------------------------------------
\* A session stays with its user and its tenant and, once ended, is never open again,
\* whatever is refreshed, logged out, deactivated or deleted in whatever order.
Goes(i) ==
    /\ SessionOf(i)'.user = SessionOf(i).user
    /\ SessionOf(i)'.tenant = SessionOf(i).tenant
    /\ SessionOf(i)'.state = "open" => SessionOf(i).state = "open"

SessionsOnlyEnd == [][\A i \in Requests : SessionOf(i) # None => Goes(i)]_vars

LEMMA AnswersOnlyEnd ==
    ASSUME NEW r \in Requests, Promise!Step(r), NEW i \in Requests, SessionOf(i) # None
    PROVE  Goes(i)
<1> DEFINE mine == [j \in Requests |-> SessionOf(j)]
           claims == [q \in Requests |-> ClaimOf(q)]
           c == claims[r]
<1>1. mine[i] = SessionOf(i) /\ mine'[i] = SessionOf(i)'
  OBVIOUS
<1>2. CASE mine' = mine
  BY <1>1, <1>2 DEF Goes
<1>3. CASE mine' # mine
  <2>1. Promise!Open(r) \/ Promise!Continue(r) \/ Promise!End(r)
    BY <1>3 DEF Promise!Step, Promise!Login, Promise!Present, Promise!Clear,
       Promise!Withdraw, Promise!Answer
  <2>2. CASE Promise!Open(r)
    <3>1. mine[r] = None /\ mine' = [mine EXCEPT ![r] = Promise!Opened(c)]
      BY <2>2 DEF Promise!Open
    <3>2. i # r
      BY <1>1, <3>1
    <3>3. mine'[i] = mine[i]
      BY <3>1, <3>2
    <3> QED
      BY <1>1, <3>3 DEF Goes
  <2>3. ASSUME mine'[i] = Promise!Ended(mine[i]) PROVE Goes(i)
    BY <1>1, <2>3 DEF Goes, Promise!Ended
  <2>4. CASE Promise!Continue(r)
    <3>1. /\ mine[r] = None
          /\ mine' = [mine EXCEPT ![c.session] = Promise!Ended(@), ![r] = Promise!Opened(c)]
      BY <2>4 DEF Promise!Continue
    <3>2. i # r
      BY <1>1, <3>1
    <3>3. mine'[i] = IF i = c.session THEN Promise!Ended(mine[i]) ELSE mine[i]
      BY <3>1, <3>2
    <3> QED
      BY <1>1, <2>3, <3>3 DEF Goes
  <2>5. CASE Promise!End(r)
    <3>1. mine' = [mine EXCEPT ![c.session] = Promise!Ended(@)]
      BY <2>5 DEF Promise!End
    <3>2. mine'[i] = IF i = c.session THEN Promise!Ended(mine[i]) ELSE mine[i]
      BY <3>1
    <3> QED
      BY <1>1, <2>3, <3>2 DEF Goes
  <2> QED
    BY <2>1, <2>2, <2>4, <2>5
<1> QED
  BY <1>2, <1>3

LEMMA DeletionsOnlyEnd ==
    ASSUME IInv, SessionsInv, NEW u \in Users, Promise!Delete(u),
           NEW i \in Requests, SessionOf(i) # None
    PROVE  Goes(i)
<1> DEFINE mine == [j \in Requests |-> SessionOf(j)]
<1>1. PICK s \in {"open", "ended", "gone"} :
          SessionOf(i) = [user |-> call[i].sub, tenant |-> call[i].tenant, state |-> s]
  BY SessionHeld DEF SessionOf
<1>2. mine[i] = SessionOf(i) /\ mine'[i] = SessionOf(i)'
  OBVIOUS
<1>3. mine'[i] = mine[i] \/ mine'[i] = [mine[i] EXCEPT !.state = "gone"]
  BY DEF Promise!Delete
<1> QED
  BY <1>1, <1>2, <1>3 DEF Goes

\* A session of the token endpoints only ever comes to its end.
THEOREM SessionsAreNotRevived == Spec => SessionsOnlyEnd
<1>1. IInv /\ SessionsInv /\ [Next]_vars => [\A i \in Requests : SessionOf(i) # None => Goes(i)]_vars
  <2> SUFFICES ASSUME IInv, SessionsInv, [Next]_vars, NEW i \in Requests, SessionOf(i) # None
               PROVE  Goes(i)
    OBVIOUS
  <2>1. [Promise!Next]_(Promise!vars)
    BY SessionsStep
  <2>2. ASSUME UNCHANGED [j \in Requests |-> SessionOf(j)] PROVE Goes(i)
    <3>1. SessionOf(i)' = SessionOf(i)
      BY <2>2
    <3> QED
      BY <3>1 DEF Goes
  <2>3. CASE Promise!DirectoryChange \/ UNCHANGED Promise!vars
    BY <2>2, <2>3 DEF Promise!DirectoryChange, Promise!vars
  <2>4. CASE \E r \in Requests : Promise!Step(r)
    BY <2>4, AnswersOnlyEnd
  <2>5. CASE \E u \in Users : Promise!Delete(u)
    BY <2>5, DeletionsOnlyEnd
  <2> QED
    BY <2>1, <2>3, <2>4, <2>5 DEF Promise!Next
<1> QED
  BY <1>1, AlwaysSessionsInv, AlwaysIInv, PTL DEF Spec, SessionsOnlyEnd

-----------------------------------------------------------------------------
\* AuthSession assumes no more of its surroundings than Directory: whatever may happen
\* there between two statements may happen here.
LEMMA DirectoryIsFree ==
    ASSUME TypeOK, Promise!Directory!Change,
           UNCHANGED <<now, refresh_tokens, pc, call, picked, issued, preceding, barred>>
    PROVE  [Accounts]_vars
<1>1. ASSUME NEW u \in Users, NEW status \in {"active", "inactive"},
             Promise!Directory!SetActive(u, status)
      PROVE  [Accounts]_vars
  <2>1. CASE account[u] = status
    BY <1>1, <2>1 DEF Promise!Directory!SetActive, TypeOK, vars, db
  <2>2. CASE account[u] # status
    <3>1. UpdateUser(u, status)
      BY <1>1, <2>2 DEF Promise!Directory!SetActive, UpdateUser
    <3> QED
      BY <3>1 DEF Accounts
  <2> QED
    BY <2>1, <2>2
<1>2. ASSUME NEW u \in Users, NEW t \in Tenants,
             Promise!Directory!Admit(u, t) \/ Promise!Directory!Dismiss(u, t)
      PROVE  Accounts
  <2>1. AddMember(u, t) \/ RemoveMember(u, t)
    BY <1>2 DEF Promise!Directory!Admit, Promise!Directory!Dismiss, AddMember, RemoveMember
  <2> QED
    BY <2>1 DEF Accounts
<1> QED
  BY <1>1, <1>2 DEF Promise!Directory!Change
=============================================================================
