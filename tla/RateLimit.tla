----------------------------- MODULE RateLimit -----------------------------
(***************************************************************************)
(* RateLimitMiddleware: a token bucket per client address, kept in the     *)
(* memory of the one uvicorn process, charged by every request whose path  *)
(* starts with /api/v1/auth.  Requests for other paths touch no bucket.    *)
(*                                                                         *)
(* _allow has no await, so it runs in one step of the event loop.  Tokens  *)
(* are counted in units of rate per tick: a bucket gains one unit a tick,  *)
(* a request costs Cost units (Cost = 1/rate = 60 with ticks of a second)  *)
(* and a full bucket holds Burst * Cost.                                   *)
(***************************************************************************)
EXTENDS Integers, Sequences

CONSTANTS
    Clients,      \* request.client.host; "unknown" is one of them
    Burst,        \* burst
    Cost,         \* 1 / rate, in ticks
    NoBucket,     \* the address is not a key of _buckets
    MaxTime,      \* bound of the model: the clock stops here
    MaxRequests,  \* bound of the model: requests a client makes of one process
    MaxRestarts   \* bound of the model: restarts of the process

ASSUME BurstAssumption == Burst \in Nat \ {0}
ASSUME CostAssumption == Cost \in Nat \ {0}
ASSUME BoundsAssumption == MaxTime \in Nat /\ MaxRequests \in Nat /\ MaxRestarts \in Nat

VARIABLES
    now,          \* time.monotonic(), in ticks
    buckets,      \* _buckets
    served,       \* history: times of the requests this process passed on, per client
    limited,      \* history: requests it answered 429, per client
    passed,       \* history: requests passed on by this process and those before it
    restarts      \* history: how often the process was restarted

process == <<buckets, served, limited>>
vars    == <<now, process, passed, restarts>>

Full == Burst * Cost

Bucket == [tokens : 0 .. Full, last_refill : Nat]

ASSUME NoBucketAssumption == NoBucket \notin Bucket

\* defaultdict: a missing key gets a full bucket made now.
BucketOf(c) ==
    IF buckets[c] = NoBucket THEN [tokens |-> Full, last_refill |-> now] ELSE buckets[c]

\* Mutant of Refilled: the burst does not cap what an idle client gathers.
RefilledUncapped(c) == BucketOf(c).tokens + (now - BucketOf(c).last_refill)

\* The tokens of the bucket after the refill that starts every request.
Refilled(c) ==
    LET gained == BucketOf(c).tokens + (now - BucketOf(c).last_refill)
    IN  IF gained < Full THEN gained ELSE Full

CanAsk(c) == Len(served[c]) + limited[c] < MaxRequests

-----------------------------------------------------------------------------
Init ==
    /\ now = 0
    /\ buckets = [c \in Clients |-> NoBucket]
    /\ served = [c \in Clients |-> << >>]
    /\ limited = [c \in Clients |-> 0]
    /\ passed = [c \in Clients |-> 0]
    /\ restarts = 0

\* Mutant of Serve: pays first and never asks what is left.
ServeUnchecked(c) ==
    /\ CanAsk(c)
    /\ buckets' = [buckets EXCEPT ![c] =
           [tokens |-> Refilled(c) - Cost, last_refill |-> now]]
    /\ served' = [served EXCEPT ![c] = Append(@, now)]
    /\ passed' = [passed EXCEPT ![c] = @ + 1]
    /\ UNCHANGED <<now, limited, restarts>>

\* A token is there: it is taken and the request passed on.
Serve(c) ==
    /\ CanAsk(c)
    /\ Refilled(c) >= Cost
    /\ buckets' = [buckets EXCEPT ![c] =
           [tokens |-> Refilled(c) - Cost, last_refill |-> now]]
    /\ served' = [served EXCEPT ![c] = Append(@, now)]
    /\ passed' = [passed EXCEPT ![c] = @ + 1]
    /\ UNCHANGED <<now, limited, restarts>>

\* Mutant of Refuse: last_refill moves on but the refill is not stored.
RefuseForgetsRefill(c) ==
    /\ CanAsk(c)
    /\ Refilled(c) < Cost
    /\ buckets' = [buckets EXCEPT ![c] =
           [tokens |-> BucketOf(c).tokens, last_refill |-> now]]
    /\ limited' = [limited EXCEPT ![c] = @ + 1]
    /\ UNCHANGED <<now, served, passed, restarts>>

\* Mutant of Refuse: the last token of a bucket is refused.
RefuseLastToken(c) ==
    /\ CanAsk(c)
    /\ Refilled(c) <= Cost
    /\ buckets' = [buckets EXCEPT ![c] = [tokens |-> Refilled(c), last_refill |-> now]]
    /\ limited' = [limited EXCEPT ![c] = @ + 1]
    /\ UNCHANGED <<now, served, passed, restarts>>

\* Mutant of Refuse: an empty bucket is thrown away.
RefuseDropsBucket(c) ==
    /\ CanAsk(c)
    /\ Refilled(c) < Cost
    /\ buckets' = [buckets EXCEPT ![c] = NoBucket]
    /\ limited' = [limited EXCEPT ![c] = @ + 1]
    /\ UNCHANGED <<now, served, passed, restarts>>

\* Less than a token: 429, the refill is kept.
Refuse(c) ==
    /\ CanAsk(c)
    /\ Refilled(c) < Cost
    /\ buckets' = [buckets EXCEPT ![c] = [tokens |-> Refilled(c), last_refill |-> now]]
    /\ limited' = [limited EXCEPT ![c] = @ + 1]
    /\ UNCHANGED <<now, served, passed, restarts>>

\* The process is restarted: _buckets starts empty.
Restart ==
    /\ restarts < MaxRestarts
    /\ restarts' = restarts + 1
    /\ buckets' = [c \in Clients |-> NoBucket]
    /\ served' = [c \in Clients |-> << >>]
    /\ limited' = [c \in Clients |-> 0]
    /\ UNCHANGED <<now, passed>>

Tick ==
    /\ now < MaxTime
    /\ now' = now + 1
    /\ UNCHANGED <<process, passed, restarts>>

\* All bounds of the model are reached.
Exhausted ==
    /\ now = MaxTime
    /\ restarts = MaxRestarts
    /\ \A c \in Clients : ~ CanAsk(c)
    /\ UNCHANGED vars

Next ==
    \/ \E c \in Clients : Serve(c) \/ Refuse(c)
    \/ Restart
    \/ Tick
    \/ Exhausted

Spec == Init /\ [][Next]_vars

-----------------------------------------------------------------------------
\* Buckets hold between nothing and the burst, however requests and refills mix.
TypeOK ==
    /\ now \in 0 .. MaxTime
    /\ buckets \in [Clients -> Bucket \cup {NoBucket}]
    /\ \A c \in Clients : buckets[c] # NoBucket => buckets[c].last_refill <= now
    /\ served \in [Clients -> Seq(0 .. MaxTime)]
    /\ limited \in [Clients -> Nat]
    /\ passed \in [Clients -> Nat]
    /\ restarts \in Nat

\* Between any two requests of a client that were let through, both included,
\* there are at most Burst plus one per Cost ticks between them: the limiter
\* cannot be outrun by waiting, by bursts or by polling while it refuses.
WindowBound ==
    \A c \in Clients : \A i, j \in DOMAIN served[c] :
        i <= j => (j - i + 1) * Cost <= Full + served[c][j] - served[c][i]

\* A restart forgets what clients have spent, and that is all it is worth to them:
\* over the life of the service a client gets one more burst for each.
RestartsAreBursts ==
    \A c \in Clients : passed[c] * Cost <= (restarts + 1) * Full + now

\* A request is refused only when one of the same client was let through less
\* than Cost ticks ago: refused requests do not put off the next token.
RefusalHasCause ==
    [][\A c \in Clients :
           limited'[c] > limited[c] =>
               /\ served[c] # << >>
               /\ now - served[c][Len(served[c])] < Cost]_vars

\* The bucket decides exactly as the allowance over all past windows would.
Promise == INSTANCE ArrivalCurve
ImplementsArrivalCurve == Promise!Spec
=============================================================================
