------------------------------ MODULE Accounts ------------------------------
(***************************************************************************)
(* What the account endpoints promise to the owner of an address: at most  *)
(* one open account has it, letters about an account go to its address     *)
(* only, nobody but a reader of those letters verifies the account or      *)
(* changes its password, and a closed account stays closed.                *)
(***************************************************************************)
CONSTANTS Ids, Emails, Passwords, None

VARIABLES
    accounts,  \* id -> None or what is known of the account
    letters    \* <<address, kind, id>> of the letters sent

vars == <<accounts, letters>>

\* Of a closed account the letters that went to its address are all that is left.
Closed(e) == [email |-> e, open |-> FALSE]

Opened(e, p, v) == [email |-> e, password |-> p, verified |-> v, open |-> TRUE]

IsOpen(a) == accounts[a] # None /\ accounts[a].open

Received(a, kind) == <<accounts[a].email, kind, a>> \in letters

Init ==
    /\ accounts = [a \in Ids |-> None]
    /\ letters = {}

Open(a, e, p) ==
    /\ accounts[a] = None
    /\ \A b \in Ids : IsOpen(b) => accounts[b].email # e
    /\ accounts' = [accounts EXCEPT ![a] = Opened(e, p, FALSE)]
    /\ UNCHANGED letters

Write(a, kind) ==
    /\ accounts[a] # None
    /\ letters' = letters \cup {<<accounts[a].email, kind, a>>}
    /\ UNCHANGED accounts

Verify(a) ==
    /\ IsOpen(a)
    /\ Received(a, "verify")
    /\ accounts' = [accounts EXCEPT ![a] = Opened(@.email, @.password, TRUE)]
    /\ UNCHANGED letters

ChangePassword(a, p) ==
    /\ IsOpen(a)
    /\ Received(a, "reset")
    /\ accounts' = [accounts EXCEPT ![a] = Opened(@.email, p, @.verified)]
    /\ UNCHANGED letters

Close(a) ==
    /\ IsOpen(a)
    /\ accounts' = [accounts EXCEPT ![a] = Closed(@.email)]
    /\ UNCHANGED letters

Next ==
    \E a \in Ids :
        \/ \E e \in Emails, p \in Passwords : Open(a, e, p)
        \/ \E kind \in {"verify", "reset"} : Write(a, kind)
        \/ Verify(a)
        \/ \E p \in Passwords : ChangePassword(a, p)
        \/ Close(a)

Spec == Init /\ [][Next]_vars
=============================================================================
