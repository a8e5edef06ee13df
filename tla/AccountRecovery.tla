-------------------------- MODULE AccountRecovery --------------------------
(***************************************************************************)
(* POST /auth/register, /verify-email, /forgot-password and                *)
(* /reset-password, i.e. AuthService.register, verify_email,               *)
(* forgot_password and reset_password, with the letters they send, beside  *)
(* the deletion of accounts.                                               *)
(*                                                                         *)
(* Every statement of a request's database session is one action (READ     *)
(* COMMITTED).  A request inserts at most one user and one token row, so   *)
(* the request stands for both uuid4 keys, and for the password it brings. *)
(***************************************************************************)
EXTENDS Integers

CONSTANTS
    Requests,   \* requests the service receives; each runs once
    Emails,     \* addresses, in lower case
    None,       \* no row, no token, no pick
    Gone,       \* a user's row that has been deleted
    VerifyTTL,  \* 24 hours, in clock ticks
    ResetTTL,   \* 1 hour, in clock ticks
    MaxTime     \* bound of the model: the clock stops here

ASSUME LifetimeAssumption == VerifyTTL \in Nat /\ ResetTTL \in Nat /\ MaxTime \in Nat

VARIABLES
    now,     \* wall clock in whole seconds, the resolution of a JWT's exp
    users,   \* the table: key -> row
    tokens,  \* email_verification_tokens and password_reset_tokens: key -> row
    mailed,  \* letters the SMTP server has taken: address and token
    pc,      \* where each request is
    call,    \* its endpoint and arguments
    issued,  \* the token it made
    picked,  \* the row its SELECT returned (token_record)
    late     \* history: requests whose token was dead on arrival

db   == <<users, tokens, mailed>>
vars == <<now, db, pc, call, issued, picked, late>>

Kinds == {"verify", "reset"}

Lifetime(kind) == IF kind = "verify" THEN VerifyTTL ELSE ResetTTL

\* The claims of _create_typed_token, but the email, which is that of sub for
\* good.  Equal claims are equal strings and have equal hashes.
Token == [sub : Requests, kind : Kinds, exp : Nat]

User == [email : Emails, password : Requests, is_verified : BOOLEAN]

\* Rows of both tables; the token's kind says which.  expires_at is exp.
Row == [token : Token, used : BOOLEAN]

\* What Accounts, the abstract specification, knows of an account.
Account ==
    [email : Emails, password : Requests, verified : BOOLEAN, open : {TRUE}] \cup
    [email : Emails, open : {FALSE}]

ASSUME NoneAssumption ==
    /\ None \notin User \cup Row \cup Token \cup Account
    /\ Gone \notin User \cup {None}

Call ==
    [op : {"register", "forgot"}, email : Emails] \cup
    [op : Kinds, token : Token]

Letter == [to : Emails, token : Token]

Working  == {"lookup", "insert", "issue", "store", "mail", "decode", "select",
             "user", "commit"}
Finished == {"done", "failed"}  \* answered 2xx, or with an error

Goto(r, label) == pc' = [pc EXCEPT ![r] = label]

Exists(u) == users[u] \notin {None, Gone}

\* SELECT ... WHERE email = e
UsersAt(e) == {u \in Requests : Exists(u) /\ users[u].email = e}

\* Mutant of Taken: users.email without its unique index.
TakenNever(e) == FALSE

\* The unique index on users.email refuses another row.
Taken(e) == UsersAt(e) # {}

\* Mutant of NewToken: the lifetime is subtracted.
NewTokenBackdated(u, kind) == [sub |-> u, kind |-> kind, exp |-> now - Lifetime(kind)]

\* create_verification_token, create_password_reset_token.
NewToken(u, kind) == [sub |-> u, kind |-> kind, exp |-> now + Lifetime(kind)]

\* Mutant of Matching: the query drops used_at IS NULL.
MatchingUsedToo(tok) == {k \in Requests : tokens[k] # None /\ tokens[k].token = tok}

\* Rows the SELECT of verify_email or reset_password may return.
Matching(tok) == {k \in Requests : tokens[k] # None /\ tokens[k].token = tok /\ ~ tokens[k].used}

\* Mutant of Stored: the row is added to the session and never committed.
StoredUncommitted(r) == tokens

Stored(r) == [tokens EXCEPT ![r] = [token |-> issued[r], used |-> FALSE]]

\* All rows of the token are spent and no request can add another.
Spent(tok) ==
    /\ tok.exp < now + Lifetime(tok.kind)
    /\ \A k \in Requests : tokens[k] # None /\ tokens[k].token = tok => tokens[k].used
    /\ \A q \in Requests : pc[q] = "store" => issued[q] # tok

\* The token is no longer good for anything and never will be.
Dead(tok) == tok.exp <= now \/ Spent(tok)

-----------------------------------------------------------------------------
Init ==
    /\ now = 0
    /\ users = [u \in Requests |-> None]
    /\ tokens = [k \in Requests |-> None]
    /\ mailed = {}
    /\ pc = [r \in Requests |-> "idle"]
    /\ call = [r \in Requests |-> None]
    /\ issued = [r \in Requests |-> None]
    /\ picked = [r \in Requests |-> None]
    /\ late = {}

Arrive(r, label, c) ==
    /\ pc[r] = "idle"
    /\ Goto(r, label)
    /\ call' = [call EXCEPT ![r] = c]
    /\ UNCHANGED <<now, db, issued, picked>>

\* /auth/register and /auth/forgot-password name an address.
ArriveWithEmail(r, op, e) ==
    /\ Arrive(r, "lookup", [op |-> op, email |-> e])
    /\ UNCHANGED late

\* /auth/verify-email and /auth/reset-password are called with any token that
\* has been mailed, the wrong one for the endpoint too.
ArriveWithToken(r, op, letter) ==
    /\ Arrive(r, "decode", [op |-> op, token |-> letter.token])
    /\ late' = IF Dead(letter.token) THEN late \cup {r} ELSE late

-----------------------------------------------------------------------------
\* SELECT the user by address.  A registration goes on when there is none (or
\* answers 400); forgot_password goes on when there is one (or answers anyway).
Lookup(r) ==
    /\ pc[r] = "lookup"
    /\ LET found == UsersAt(call[r].email)
       IN  \/ /\ call[r].op = "register"
              /\ Goto(r, IF found = {} THEN "insert" ELSE "failed")
              /\ UNCHANGED issued
           \/ /\ call[r].op = "forgot"
              /\ found = {}
              /\ Goto(r, "done")
              /\ UNCHANGED issued
           \/ /\ call[r].op = "forgot"
              /\ \E u \in found : issued' = [issued EXCEPT ![r] = NewToken(u, "reset")]
              /\ Goto(r, "store")
    /\ UNCHANGED <<now, db, call, picked, late>>

\* register: INSERT the user and commit; the unique email refuses a second one
\* that came between the SELECT and here.
InsertUser(r) ==
    /\ pc[r] = "insert"
    /\ \/ /\ Taken(call[r].email)
          /\ Goto(r, "failed")
          /\ UNCHANGED users
       \/ /\ ~ Taken(call[r].email)
          /\ users' = [users EXCEPT ![r] =
                 [email |-> call[r].email, password |-> r, is_verified |-> FALSE]]
          /\ Goto(r, "issue")
    /\ UNCHANGED <<now, tokens, mailed, call, issued, picked, late>>

\* register: refresh(user), which raises when the row has gone, then the token.
IssueVerification(r) ==
    /\ pc[r] = "issue"
    /\ \/ /\ ~ Exists(r)
          /\ Goto(r, "failed")
          /\ UNCHANGED issued
       \/ /\ Exists(r)
          /\ issued' = [issued EXCEPT ![r] = NewToken(r, "verify")]
          /\ Goto(r, "store")
    /\ UNCHANGED <<now, db, call, picked, late>>

\* INSERT the token row and commit; the foreign key fails without the user.
StoreToken(r) ==
    /\ pc[r] = "store"
    /\ \/ /\ ~ Exists(issued[r].sub)
          /\ Goto(r, "failed")
          /\ UNCHANGED tokens
       \/ /\ Exists(issued[r].sub)
          /\ tokens' = Stored(r)
          /\ Goto(r, "mail")
    /\ UNCHANGED <<now, users, mailed, call, issued, picked, late>>

\* send_email to the address the user was read with, then the answer.
SendEmail(r) ==
    /\ pc[r] = "mail"
    /\ mailed' = mailed \cup {[to |-> call[r].email, token |-> issued[r]]}
    /\ Goto(r, "done")
    /\ UNCHANGED <<now, users, tokens, call, issued, picked, late>>

-----------------------------------------------------------------------------
\* Mutant of DecodeToken: exp is left to the check of expires_at.
DecodeTokenAnyAge(r) ==
    /\ pc[r] = "decode"
    /\ Goto(r, IF call[r].token.kind = call[r].op THEN "select" ELSE "failed")
    /\ UNCHANGED <<now, db, call, issued, picked, late>>

\* decode_token: 401 for an expired token or one of the other type.
DecodeToken(r) ==
    /\ pc[r] = "decode"
    /\ Goto(r, IF call[r].token.exp > now /\ call[r].token.kind = call[r].op
               THEN "select" ELSE "failed")
    /\ UNCHANGED <<now, db, call, issued, picked, late>>

\* SELECT an unused row (scalar() takes any one of several), check expires_at,
\* which has the fraction of a second that exp drops: at exp, either result.
SelectToken(r) ==
    /\ pc[r] = "select"
    /\ \/ /\ call[r].token.exp >= now
          /\ \E k \in Matching(call[r].token) : picked' = [picked EXCEPT ![r] = k]
          /\ Goto(r, "user")
       \/ /\ Matching(call[r].token) = {} \/ call[r].token.exp <= now
          /\ Goto(r, "failed")
          /\ UNCHANGED picked
    /\ UNCHANGED <<now, db, call, issued, late>>

\* SELECT the user: 404 when gone; verify_email answers 400 when verified.
SelectUser(r) ==
    /\ pc[r] = "user"
    /\ LET u == call[r].token.sub
       IN  Goto(r, IF ~ Exists(u) THEN "failed"
                   ELSE IF call[r].op = "verify" /\ users[u].is_verified THEN "failed"
                   ELSE "commit")
    /\ UNCHANGED <<now, db, call, issued, picked, late>>

\* One transaction sets is_verified or the password and used_at.  An UPDATE of
\* a user deleted meanwhile matches no row and raises.
CommitToken(r) ==
    /\ pc[r] = "commit"
    /\ LET u == call[r].token.sub
       IN  \/ /\ ~ Exists(u)
              /\ Goto(r, "failed")
              /\ UNCHANGED <<users, tokens>>
           \/ /\ Exists(u)
              /\ \/ /\ call[r].op = "verify"
                    /\ users' = [users EXCEPT ![u].is_verified = TRUE]
                 \/ /\ call[r].op = "reset"
                    /\ users' = [users EXCEPT ![u].password = r]
              /\ tokens' = [tokens EXCEPT ![picked[r]].used = TRUE]
              /\ Goto(r, "done")
    /\ UNCHANGED <<now, mailed, call, issued, picked, late>>

-----------------------------------------------------------------------------
\* Any exception at an await: what is not committed is rolled back.
Fail(r) ==
    /\ pc[r] \in Working
    /\ Goto(r, "failed")
    /\ UNCHANGED <<now, db, call, issued, picked, late>>

\* The commit of delete_user; both token tables cascade.
DeleteUser(u) ==
    /\ Exists(u)
    /\ users' = [users EXCEPT ![u] = Gone]
    /\ tokens' = [k \in Requests |->
           IF tokens[k] # None /\ tokens[k].token.sub = u THEN None ELSE tokens[k]]
    /\ UNCHANGED <<now, mailed, pc, call, issued, picked, late>>

Tick ==
    /\ now < MaxTime
    /\ now' = now + 1
    /\ UNCHANGED <<db, pc, call, issued, picked, late>>

\* Every request has been answered; nothing is left to serve.
Quiescent == (\A r \in Requests : pc[r] \in Finished) /\ UNCHANGED vars

Serve(r) ==
    \/ Lookup(r)
    \/ InsertUser(r)
    \/ IssueVerification(r)
    \/ StoreToken(r)
    \/ SendEmail(r)
    \/ DecodeToken(r)
    \/ SelectToken(r)
    \/ SelectUser(r)
    \/ CommitToken(r)

Next ==
    \/ \E r \in Requests :
           \/ \E op \in {"register", "forgot"}, e \in Emails : ArriveWithEmail(r, op, e)
           \/ \E op \in Kinds, letter \in mailed : ArriveWithToken(r, op, letter)
           \/ Serve(r)
           \/ Fail(r)
           \/ DeleteUser(r)
    \/ Tick
    \/ Quiescent

Spec == Init /\ [][Next]_vars

-----------------------------------------------------------------------------
\* The rows hold what their columns allow, and requests are somewhere in a handler.
TypeOK ==
    /\ now \in Nat
    /\ users \in [Requests -> User \cup {None, Gone}]
    /\ tokens \in [Requests -> Row \cup {None}]
    /\ mailed \subseteq Letter
    /\ pc \in [Requests -> {"idle"} \cup Working \cup Finished]
    /\ call \in [Requests -> Call \cup {None}]
    /\ issued \in [Requests -> Token \cup {None}]
    /\ picked \in [Requests -> Requests \cup {None}]
    /\ late \subseteq Requests

\* What verify_email asks of a token, asked all at once.
Accepts(tok) ==
    /\ tok.kind = "verify"
    /\ tok.exp > now
    /\ Matching(tok) # {}
    /\ Exists(tok.sub)
    /\ ~ users[tok.sub].is_verified

\* register's two commits and its letter, and verify_email's two columns: as long
\* as the token of an answered registration has not expired, its account is
\* verified or its letter has gone out with a token that verify_email accepts.
VerifiableInTime ==
    \A r \in Requests :
        pc[r] = "done" /\ call[r].op = "register" /\ Exists(r) =>
            \/ users[r].is_verified
            \/ issued[r].exp <= now
            \/ /\ [to |-> users[r].email, token |-> issued[r]] \in mailed
               /\ Accepts(issued[r])

\* An account that its letter does not verify, because the registration failed
\* before it was sent or because its token expired, is never verified: nothing
\* sends another letter, and no other token, old letter or reset stands in for it.
\* Its address is lost until the account is deleted: register refuses it.
Stranded(u) ==
    /\ Exists(u) /\ ~ users[u].is_verified
    /\ pc[u] \in Finished
    /\ \A l \in mailed : l.token.sub = u /\ l.token.kind = "verify" => l.token.exp <= now
    /\ \A q \in Requests :
           pc[q] \in {"select", "user", "commit"} /\ call[q].op = "verify" => call[q].token.sub # u

StrandedIsFinal ==
    [][\A u \in Requests : Stranded(u) => Stranded(u)' \/ ~ Exists(u)']_vars

\* A request that comes with a token that is spent or expired for good is refused,
\* whatever the requests beside it do: it never gets to read the user.
DeadTokenIsRefused == \A r \in late : pc[r] \in {"decode", "select", "failed"}

\* Seen by the owners of addresses, accounts behave as Accounts says.
AccountOf(u) ==
    IF Exists(u)
    THEN [email |-> users[u].email, password |-> users[u].password,
          verified |-> users[u].is_verified, open |-> TRUE]
    ELSE IF users[u] = Gone THEN [email |-> call[u].email, open |-> FALSE]
    ELSE None

Promise == INSTANCE Accounts
    WITH Ids       <- Requests,
         Passwords <- Requests,
         accounts  <- [u \in Requests |-> AccountOf(u)],
         letters   <- {<<l.to, l.token.kind, l.token.sub>> : l \in mailed}

ImplementsAccounts == Promise!Spec

\* README.md:11 promises "one-time tokens" for the reset: no two requests are
\* answered with a reset for one token.
ResetTokensAreOneTime ==
    \A r, q \in Requests :
        /\ pc[r] = "done" /\ call[r].op = "reset"
        /\ pc[q] = "done" /\ call[q].op = "reset"
        /\ call[r].token = call[q].token
        => r = q
=============================================================================
