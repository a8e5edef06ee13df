---------------------------- MODULE ArrivalCurve ----------------------------
(***************************************************************************)
(* What RateLimitMiddleware promises each client of /api/v1/auth, with no  *)
(* bucket in sight: a request is served exactly when, together with those  *)
(* served before it, every stretch of time ending now holds at most Burst  *)
(* requests plus one for every Cost ticks of its length.  Other clients    *)
(* and refused requests do not count.                                      *)
(***************************************************************************)
EXTENDS Integers, Sequences

CONSTANTS
    Clients,      \* client addresses
    Burst,        \* requests that may come at once
    Cost,         \* ticks for which one request is paid: 1/rate
    MaxTime,      \* bound of the model: the clock stops here
    MaxRequests   \* bound of the model: requests a client makes

VARIABLES
    now,          \* time.monotonic(), in ticks
    served,       \* client -> times of the requests passed on, oldest first
    limited       \* client -> number of requests answered 429

vars == <<now, served, limited>>

\* Every stretch of s that ends at its last element is within the allowance.
Conforms(s) ==
    \A i \in DOMAIN s : (Len(s) - i + 1) * Cost <= Burst * Cost + s[Len(s)] - s[i]

CanAsk(c) == Len(served[c]) + limited[c] < MaxRequests

Init ==
    /\ now = 0
    /\ served = [c \in Clients |-> << >>]
    /\ limited = [c \in Clients |-> 0]

Serve(c) ==
    /\ CanAsk(c)
    /\ Conforms(Append(served[c], now))
    /\ served' = [served EXCEPT ![c] = Append(@, now)]
    /\ UNCHANGED <<now, limited>>

Refuse(c) ==
    /\ CanAsk(c)
    /\ ~ Conforms(Append(served[c], now))
    /\ limited' = [limited EXCEPT ![c] = @ + 1]
    /\ UNCHANGED <<now, served>>

\* The promise is made by a process: a new one remembers nothing.
Restart ==
    /\ served' = [c \in Clients |-> << >>]
    /\ limited' = [c \in Clients |-> 0]
    /\ UNCHANGED now

Tick ==
    /\ now < MaxTime
    /\ now' = now + 1
    /\ UNCHANGED <<served, limited>>

Next ==
    \/ \E c \in Clients : Serve(c) \/ Refuse(c)
    \/ Restart
    \/ Tick

Spec == Init /\ [][Next]_vars
=============================================================================
