-------------------------- MODULE RateLimit_proofs --------------------------
(***************************************************************************)
(* Proofs, for every burst, rate and number of clients, that the token     *)
(* bucket of RateLimitMiddleware keeps the allowance over every window and *)
(* decides exactly as ArrivalCurve does.                                   *)
(***************************************************************************)
EXTENDS RateLimit, SequenceTheorems, TLAPS

\* What n requests cost.
Paid(n) == n * Cost

\* The requests of client c from the i-th on, the last one included.
Since(c, i) == Len(served[c]) - i + 1

\* Over every window that ends now, what was paid and what is left together do
\* not exceed the allowance of the window ...
UpperInv ==
    \A c \in Clients : \A i \in DOMAIN served[c] :
        Refilled(c) + Paid(Since(c, i)) <= Full + now - served[c][i]

\* ... and over some window they use it up, unless the bucket is full.
LowerInv ==
    \A c \in Clients :
        \/ Refilled(c) = Full
        \/ \E i \in DOMAIN served[c] :
               Refilled(c) + Paid(Since(c, i)) = Full + now - served[c][i]

PastInv ==
    \A c \in Clients : \A i \in DOMAIN served[c] : served[c][i] <= now

\* What so many bursts are worth.
Bursts(n) == n * Full

\* All that a client was served and what is left to it do not exceed the bursts of
\* all processes and what came in since the first.
LifeInv ==
    \A c \in Clients : Refilled(c) + Paid(passed[c]) <= Bursts(restarts + 1) + now

IInv == TypeOK /\ PastInv /\ UpperInv /\ LowerInv /\ WindowBound /\ LifeInv

-----------------------------------------------------------------------------
\* What n requests cost is an integer.
LEMMA PaidType == \A n \in Int : Paid(n) \in Int
BY CostAssumption DEF Paid

\* One more request costs Cost more.
LEMMA PaidNext == \A n \in Int : Paid(n + 1) = Paid(n) + Cost
BY CostAssumption DEF Paid

\* One request costs Cost.
LEMMA PaidOne == Paid(1) = Cost
BY CostAssumption DEF Paid

\* A full bucket pays for at least one request.
LEMMA FullType == Full \in Nat /\ Cost <= Full
<1>1. PICK b \in Nat : Burst = b + 1
  <2>1. Burst - 1 \in Nat /\ Burst = (Burst - 1) + 1
    BY BurstAssumption
  <2> QED
    BY <2>1
<1>2. (b + 1) * Cost = b * Cost + Cost /\ b * Cost \in Nat
  BY CostAssumption
<1> QED
  BY <1>1, <1>2, CostAssumption DEF Full

\* What bursts are worth is an integer.
LEMMA BurstsType == \A n \in Int : Bursts(n) \in Int
BY FullType DEF Bursts

\* A refill stays within the bucket.
LEMMA RefilledType ==
  ASSUME TypeOK, NEW c \in Clients
  PROVE  Refilled(c) \in 0 .. Full
BY FullType DEF TypeOK, Refilled, BucketOf, Bucket

\* The types of what the life of the service adds up to.
LEMMA LifeTypes ==
  ASSUME TypeOK, NEW c \in Clients
  PROVE  /\ Refilled(c) \in 0 .. Full /\ Full \in Nat /\ now \in Nat
         /\ passed[c] \in Nat /\ Paid(passed[c]) \in Int
         /\ restarts \in Nat /\ Bursts(restarts + 1) \in Int
<1>1. passed[c] \in Nat /\ restarts \in Nat /\ restarts + 1 \in Int /\ now \in Nat
  BY BoundsAssumption DEF TypeOK
<1> QED
  BY <1>1, RefilledType, FullType, PaidType, BurstsType

\* The bucket a request leaves behind holds what it stored.
LEMMA RefilledStored ==
  ASSUME NEW c \in Clients, NEW n \in 0 .. Full,
         now' = now, now \in Nat,
         buckets'[c] = [tokens |-> n, last_refill |-> now]
  PROVE  Refilled(c)' = n
<1>1. buckets'[c] \in Bucket
  BY DEF Bucket
<1>2. buckets'[c] # NoBucket
  BY <1>1, NoBucketAssumption
<1> QED
  BY <1>2, FullType DEF Refilled, BucketOf

\* A client whose bucket a step leaves alone keeps what it has.
LEMMA RefilledSame ==
  ASSUME NEW c \in Clients, now' = now, buckets'[c] = buckets[c]
  PROVE  Refilled(c)' = Refilled(c)
BY DEF Refilled, BucketOf

\* Every step keeps the buckets and the times well formed.
LEMMA TypeStep == TypeOK /\ [Next]_vars => TypeOK'
<1> SUFFICES ASSUME TypeOK, [Next]_vars PROVE TypeOK'
  OBVIOUS
<1> USE CostAssumption, BoundsAssumption, FullType
<1>1. ASSUME NEW c \in Clients, Serve(c) PROVE TypeOK'
  <2>1. Refilled(c) - Cost \in 0 .. Full
    BY <1>1, RefilledType DEF Serve
  <2>2. [tokens |-> Refilled(c) - Cost, last_refill |-> now] \in Bucket
    BY <2>1 DEF TypeOK, Bucket
  <2>3. Append(served[c], now) \in Seq(0 .. MaxTime)
    BY AppendProperties DEF TypeOK
  <2> QED
    BY <1>1, <2>2, <2>3 DEF Serve, TypeOK, Bucket
<1>2. ASSUME NEW c \in Clients, Refuse(c) PROVE TypeOK'
  <2>1. [tokens |-> Refilled(c), last_refill |-> now] \in Bucket
    BY RefilledType DEF TypeOK, Bucket
  <2> QED
    BY <1>2, <2>1 DEF Refuse, TypeOK, Bucket
<1>3. CASE Restart
  BY <1>3 DEF Restart, TypeOK
<1>4. CASE Tick
  BY <1>4 DEF Tick, process, TypeOK, Bucket
<1>5. CASE UNCHANGED vars
  BY <1>5 DEF vars, process, TypeOK
<1> QED
  BY <1>1, <1>2, <1>3, <1>4, <1>5 DEF Next, Exhausted

-----------------------------------------------------------------------------
\* The effect of each action on what a client has and what it was served.
LEMMA ServeEffect ==
  ASSUME TypeOK, NEW c \in Clients, Serve(c)
  PROVE  /\ now' = now
         /\ Refilled(c)' = Refilled(c) - Cost
         /\ Len(served'[c]) = Len(served[c]) + 1
         /\ DOMAIN served'[c] = DOMAIN served[c] \cup {Len(served[c]) + 1}
         /\ \A i \in DOMAIN served[c] : served'[c][i] = served[c][i]
         /\ served'[c][Len(served[c]) + 1] = now
         /\ \A d \in Clients \ {c} : served'[d] = served[d] /\ Refilled(d)' = Refilled(d)
<1>1. Refilled(c) - Cost \in 0 .. Full
  BY FullType, RefilledType, CostAssumption DEF Serve
<1>2. now \in Nat /\ now' = now
  BY BoundsAssumption DEF TypeOK, Serve
<1>3. Refilled(c)' = Refilled(c) - Cost
  <2>1. buckets'[c] = [tokens |-> Refilled(c) - Cost, last_refill |-> now]
    BY DEF Serve, TypeOK
  <2> QED
    BY <1>1, <1>2, <2>1, RefilledStored
<1>4. \A d \in Clients \ {c} : served'[d] = served[d] /\ Refilled(d)' = Refilled(d)
  <2>1. \A d \in Clients \ {c} : served'[d] = served[d] /\ buckets'[d] = buckets[d]
    BY DEF Serve, TypeOK
  <2> QED
    BY <1>2, <2>1, RefilledSame
<1>5. served[c] \in Seq(0 .. MaxTime) /\ now \in 0 .. MaxTime
  BY DEF TypeOK
<1>6. served'[c] = Append(served[c], now)
  BY DEF Serve, TypeOK
<1> QED
  BY <1>2, <1>3, <1>4, <1>5, <1>6, AppendProperties

\* A refused request keeps its refill and is served nothing.
LEMMA RefuseEffect ==
  ASSUME TypeOK, NEW c \in Clients, Refuse(c)
  PROVE  /\ now' = now /\ served' = served
         /\ \A d \in Clients : Refilled(d)' = Refilled(d)
<1>1. now \in Nat /\ now' = now /\ served' = served
  BY BoundsAssumption DEF TypeOK, Refuse
<1>2. Refilled(c)' = Refilled(c)
  <2>1. buckets'[c] = [tokens |-> Refilled(c), last_refill |-> now]
    BY DEF Refuse, TypeOK
  <2> QED
    BY <1>1, <2>1, RefilledType, RefilledStored
<1>3. \A d \in Clients \ {c} : Refilled(d)' = Refilled(d)
  <2>1. \A d \in Clients \ {c} : buckets'[d] = buckets[d]
    BY DEF Refuse, TypeOK
  <2> QED
    BY <1>1, <2>1, RefilledSame
<1> QED
  BY <1>1, <1>2, <1>3

\* A tick adds one unit to every bucket that is not full.
LEMMA TickEffect ==
  ASSUME TypeOK, Tick
  PROVE  /\ now' = now + 1 /\ now \in Nat /\ served' = served
         /\ \A c \in Clients :
                Refilled(c)' = IF Refilled(c) < Full THEN Refilled(c) + 1 ELSE Full
BY FullType, BoundsAssumption DEF Tick, process, TypeOK, Refilled, BucketOf, Bucket

\* After a restart every client has a full bucket and no past.
LEMMA RestartEffect ==
  ASSUME TypeOK, Restart
  PROVE  \A c \in Clients : DOMAIN served'[c] = {} /\ Refilled(c)' = Full
<1>1. now \in Nat /\ now' = now
  BY BoundsAssumption DEF TypeOK, Restart
<1>2. \A c \in Clients : served'[c] = << >> /\ buckets'[c] = NoBucket
  BY DEF Restart
<1>3. \A c \in Clients : Refilled(c)' = Full
  BY <1>1, <1>2, FullType DEF Refilled, BucketOf
<1> QED
  BY <1>2, <1>3

-----------------------------------------------------------------------------
\* The types of what the window formulas are made of.
LEMMA WindowTypes ==
  ASSUME TypeOK, NEW c \in Clients, NEW i \in DOMAIN served[c]
  PROVE  /\ now \in Int /\ served[c][i] \in Int
         /\ Len(served[c]) \in Nat /\ i \in 1 .. Len(served[c])
         /\ Since(c, i) \in Int /\ Paid(Since(c, i)) \in Int
         /\ Refilled(c) \in Int
<1>1. served[c] \in Seq(0 .. MaxTime)
  BY DEF TypeOK
<1>2. Len(served[c]) \in Nat /\ DOMAIN served[c] = 1 .. Len(served[c])
  BY <1>1
<1>3. served[c][i] \in 0 .. MaxTime
  BY <1>1, <1>2, ElementOfSeq
<1>4. Since(c, i) \in Int
  BY <1>2 DEF Since
<1>5. Refilled(c) \in 0 .. Full
  BY RefilledType
<1> QED
  BY <1>2, <1>3, <1>4, <1>5, PaidType, FullType, BoundsAssumption DEF TypeOK

\* Serving a request lengthens every window by one request.
LEMMA SinceServe ==
  ASSUME TypeOK, NEW c \in Clients, Serve(c), NEW i \in DOMAIN served[c]
  PROVE  Paid(Since(c, i)') = Paid(Since(c, i)) + Cost
<1>1. Len(served'[c]) = Len(served[c]) + 1
  BY ServeEffect
<1>2. Len(served[c]) \in Nat /\ i \in Int /\ Since(c, i) \in Int
  BY WindowTypes
<1>3. Since(c, i)' = Since(c, i) + 1
  BY <1>1, <1>2 DEF Since
<1> QED
  BY <1>2, <1>3, PaidNext

\* The window that starts with the request just served holds that one only.
LEMMA SinceServed ==
  ASSUME TypeOK, NEW c \in Clients, Serve(c), NEW i, i = Len(served[c]) + 1
  PROVE  Paid(Since(c, i)') = Cost
<1>1. Len(served[c]) \in Nat
  BY DEF TypeOK
<1>2. Len(served'[c]) = i
  BY ServeEffect
<1>3. Since(c, i)' = 1
  BY <1>1, <1>2 DEF Since
<1> QED
  BY <1>3, PaidOne

\* No step serves a request at a time still to come.
LEMMA PastStep == TypeOK /\ PastInv /\ [Next]_vars => PastInv'
<1> SUFFICES ASSUME TypeOK, PastInv, [Next]_vars PROVE PastInv'
  OBVIOUS
<1>1. ASSUME NEW c \in Clients, Serve(c) PROVE PastInv'
  <2>1. now \in Int
    BY BoundsAssumption DEF TypeOK
  <2> QED
    BY <1>1, <2>1, ServeEffect DEF PastInv
<1>2. ASSUME NEW c \in Clients, Refuse(c) PROVE PastInv'
  BY <1>2, RefuseEffect DEF PastInv
<1>3. CASE Restart
  BY <1>3, RestartEffect DEF PastInv
<1>4. CASE Tick
  BY <1>4, TickEffect, WindowTypes DEF PastInv
<1>5. CASE UNCHANGED vars
  BY <1>5 DEF vars, process, PastInv
<1> QED
  BY <1>1, <1>2, <1>3, <1>4, <1>5 DEF Next, Exhausted

\* At every step a bucket holds no more than each window leaves.
LEMMA UpperStep == TypeOK /\ PastInv /\ UpperInv /\ [Next]_vars => UpperInv'
<1> SUFFICES ASSUME TypeOK, PastInv, UpperInv, [Next]_vars,
                    NEW c \in Clients, NEW i \in DOMAIN served'[c]
             PROVE  Refilled(c)' + Paid(Since(c, i)') <= Full + now' - served'[c][i]
  BY DEF UpperInv
<1>1. ASSUME Serve(c) PROVE Refilled(c)' + Paid(Since(c, i)') <= Full + now' - served'[c][i]
  <2>1. CASE i = Len(served[c]) + 1
    <3>1. Len(served[c]) \in Nat /\ now \in Int
      BY BoundsAssumption DEF TypeOK
    <3>2. Paid(Since(c, i)') = Cost
      BY <1>1, <2>1, SinceServed
    <3>3. /\ Refilled(c)' = Refilled(c) - Cost /\ Refilled(c) \in 0 .. Full
          /\ now' = now /\ served'[c][i] = now
      BY <1>1, <2>1, ServeEffect, RefilledType
    <3> QED
      BY <3>1, <3>2, <3>3, FullType, CostAssumption
  <2>2. CASE i \in DOMAIN served[c]
    <3>1. Paid(Since(c, i)') = Paid(Since(c, i)) + Cost
      BY <1>1, <2>2, SinceServe
    <3>2. Refilled(c) + Paid(Since(c, i)) <= Full + now - served[c][i]
      BY <2>2 DEF UpperInv
    <3>3. /\ Refilled(c)' = Refilled(c) - Cost
          /\ now' = now /\ served'[c][i] = served[c][i]
      BY <1>1, <2>2, ServeEffect
    <3>4. /\ now \in Int /\ served[c][i] \in Int
          /\ Paid(Since(c, i)) \in Int /\ Refilled(c) \in Int
      BY <2>2, WindowTypes
    <3> QED
      BY <3>1, <3>2, <3>3, <3>4, FullType, CostAssumption
  <2> QED
    BY <1>1, <2>1, <2>2, ServeEffect
<1>2. ASSUME NEW d \in Clients \ {c}, Serve(d)
      PROVE  Refilled(c)' + Paid(Since(c, i)') <= Full + now' - served'[c][i]
  BY <1>2, ServeEffect DEF UpperInv, Since
<1>3. ASSUME NEW d \in Clients, Refuse(d)
      PROVE  Refilled(c)' + Paid(Since(c, i)') <= Full + now' - served'[c][i]
  BY <1>3, RefuseEffect DEF UpperInv, Since
<1>4. CASE Restart
  BY <1>4, RestartEffect
<1>5. CASE Tick
  <2>1. Since(c, i)' = Since(c, i) /\ i \in DOMAIN served[c]
    BY <1>5, TickEffect DEF Since
  <2>2. Refilled(c)' <= Refilled(c) + 1
    BY <1>5, TickEffect, RefilledType, FullType
  <2>3. Refilled(c)' \in Int
    BY <1>5, TickEffect, RefilledType, FullType
  <2>4. Refilled(c) + Paid(Since(c, i)) <= Full + now - served[c][i]
    BY <2>1 DEF UpperInv
  <2>5. now' = now + 1 /\ served' = served
    BY <1>5, TickEffect
  <2>6. /\ now \in Int /\ served[c][i] \in Int
        /\ Paid(Since(c, i)) \in Int /\ Refilled(c) \in Int
    BY <2>1, WindowTypes
  <2>7. Paid(Since(c, i)') = Paid(Since(c, i))
    BY <2>1
  <2> QED
    BY <2>2, <2>3, <2>4, <2>5, <2>6, <2>7, FullType
<1>6. CASE UNCHANGED vars
  BY <1>6 DEF vars, process, UpperInv, Since, Refilled, BucketOf
<1> QED
  BY <1>1, <1>2, <1>3, <1>4, <1>5, <1>6 DEF Next, Exhausted

\* At every step some window leaves no more than the bucket holds.
LEMMA LowerStep == TypeOK /\ LowerInv /\ [Next]_vars => LowerInv'
<1> SUFFICES ASSUME TypeOK, LowerInv, [Next]_vars, NEW c \in Clients, Refilled(c)' # Full
             PROVE  \E i \in DOMAIN served'[c] :
                        Refilled(c)' + Paid(Since(c, i)') = Full + now' - served'[c][i]
  BY DEF LowerInv
<1> DEFINE Tight(i) == Refilled(c) + Paid(Since(c, i)) = Full + now - served[c][i]
<1>1. CASE Serve(c)
  <2>1. CASE Refilled(c) = Full
    <3>1. now \in Int /\ Len(served[c]) + 1 \in Nat
      BY BoundsAssumption DEF TypeOK
    <3>n. PICK n \in Nat : n = Len(served[c]) + 1
      BY <3>1
    <3>2. n \in DOMAIN served'[c] /\ served'[c][n] = now /\ now' = now
      BY <1>1, <3>n, ServeEffect
    <3>3. Paid(Since(c, n)') = Cost
      BY <1>1, <3>n, SinceServed
    <3>4. Refilled(c)' = Full - Cost
      BY <1>1, <2>1, ServeEffect
    <3>5. Refilled(c)' + Paid(Since(c, n)') = Full + now' - served'[c][n]
      BY <3>1, <3>2, <3>3, <3>4, FullType, CostAssumption
    <3> QED
      BY <3>2, <3>5
  <2>2. ASSUME NEW i \in DOMAIN served[c], Tight(i)
        PROVE  i \in DOMAIN served'[c]
               /\ Refilled(c)' + Paid(Since(c, i)') = Full + now' - served'[c][i]
    <3>1. Paid(Since(c, i)') = Paid(Since(c, i)) + Cost
      BY <1>1, SinceServe
    <3>2. /\ i \in DOMAIN served'[c] /\ served'[c][i] = served[c][i] /\ now' = now
          /\ Refilled(c)' = Refilled(c) - Cost
      BY <1>1, ServeEffect
    <3> QED
      BY <2>2, <3>1, <3>2, WindowTypes, FullType, CostAssumption
  <2> QED
    BY <2>1, <2>2 DEF LowerInv
<1>2. ASSUME NEW d \in Clients \ {c}, Serve(d)
      PROVE  \E i \in DOMAIN served'[c] :
                 Refilled(c)' + Paid(Since(c, i)') = Full + now' - served'[c][i]
  BY <1>2, ServeEffect DEF LowerInv, Since
<1>3. ASSUME NEW d \in Clients, Refuse(d)
      PROVE  \E i \in DOMAIN served'[c] :
                 Refilled(c)' + Paid(Since(c, i)') = Full + now' - served'[c][i]
  BY <1>3, RefuseEffect DEF LowerInv, Since
<1>4. CASE Restart
  BY <1>4, RestartEffect
<1>5. CASE Tick
  <2>1. Refilled(c) # Full
    BY <1>5, TickEffect, RefilledType, FullType
  <2>2. PICK i \in DOMAIN served[c] : Tight(i)
    BY <2>1 DEF LowerInv
  <2>3. Refilled(c)' = Refilled(c) + 1
    BY <1>5, <2>1, TickEffect, RefilledType, FullType
  <2>4. Since(c, i)' = Since(c, i) /\ i \in DOMAIN served'[c] /\ served'[c][i] = served[c][i]
    BY <1>5, TickEffect DEF Since
  <2>5. now' = now + 1
    BY <1>5, TickEffect
  <2>6. /\ now \in Int /\ served[c][i] \in Int
        /\ Paid(Since(c, i)) \in Int /\ Refilled(c) \in Int
    BY WindowTypes
  <2>7. Paid(Since(c, i)') = Paid(Since(c, i))
    BY <2>4
  <2>8. Refilled(c)' + Paid(Since(c, i)') = Full + now' - served'[c][i]
    BY <2>2, <2>3, <2>4, <2>5, <2>6, <2>7, FullType
  <2> QED
    BY <2>4, <2>8
<1>6. CASE UNCHANGED vars
  BY <1>6 DEF vars, process, LowerInv, Since, Refilled, BucketOf
<1> QED
  BY <1>1, <1>2, <1>3, <1>4, <1>5, <1>6 DEF Next, Exhausted

-----------------------------------------------------------------------------
\* Every step keeps every window within the allowance.
LEMMA WindowStep == TypeOK /\ UpperInv /\ WindowBound /\ [Next]_vars => WindowBound'
<1> SUFFICES ASSUME TypeOK, UpperInv, WindowBound, [Next]_vars,
                    NEW c \in Clients,
                    NEW i \in DOMAIN served'[c], NEW j \in DOMAIN served'[c], i <= j
             PROVE  Paid(j - i + 1) <= Full + served'[c][j] - served'[c][i]
  BY DEF WindowBound, Paid, Full
<1> DEFINE Goal == Paid(j - i + 1) <= Full + served'[c][j] - served'[c][i]
<1>0. ASSUME served'[c] = served[c] PROVE Goal
  BY <1>0 DEF WindowBound, Paid
<1>1. CASE Serve(c)
  <2>1. now \in Int /\ Len(served[c]) \in Nat /\ DOMAIN served[c] = 1 .. Len(served[c])
    BY BoundsAssumption DEF TypeOK
  <2>2. CASE j \in DOMAIN served[c]
    <3>1. i \in DOMAIN served[c]
      BY <1>1, <2>1, <2>2, ServeEffect
    <3> QED
      BY <1>1, <2>2, <3>1, ServeEffect DEF WindowBound, Paid
  <2>3. CASE i = Len(served[c]) + 1
    <3>1. j - i + 1 = 1 /\ served'[c][j] = served'[c][i] /\ served'[c][i] = now
      BY <1>1, <2>1, <2>3, ServeEffect
    <3> QED
      BY <2>1, <3>1, PaidOne, FullType, CostAssumption
  <2>4. CASE i \in DOMAIN served[c] /\ j = Len(served[c]) + 1
    <3>1. j - i + 1 = Since(c, i) + 1
      BY <2>1, <2>4 DEF Since
    <3>2. Paid(j - i + 1) = Paid(Since(c, i)) + Cost
      BY <2>4, <3>1, PaidNext, WindowTypes
    <3>3. Refilled(c) + Paid(Since(c, i)) <= Full + now - served[c][i] /\ Refilled(c) >= Cost
      BY <1>1, <2>4 DEF UpperInv, Serve
    <3>4. /\ served[c][i] \in Int
          /\ Paid(Since(c, i)) \in Int /\ Refilled(c) \in Int
      BY <2>4, WindowTypes
    <3>5. served'[c][j] = now /\ served'[c][i] = served[c][i]
      BY <1>1, <2>4, ServeEffect
    <3> QED
      BY <2>1, <3>2, <3>3, <3>4, <3>5, FullType, CostAssumption
  <2> QED
    BY <1>1, <2>2, <2>3, <2>4, ServeEffect
<1>2. ASSUME NEW d \in Clients \ {c}, Serve(d) PROVE Goal
  BY <1>0, <1>2, ServeEffect
<1>3. ASSUME NEW d \in Clients, Refuse(d) PROVE Goal
  BY <1>0, <1>3, RefuseEffect
<1>4. CASE Restart
  BY <1>4, RestartEffect
<1>5. CASE Tick
  BY <1>0, <1>5, TickEffect
<1>6. CASE UNCHANGED vars
  BY <1>0, <1>6 DEF vars, process
<1> QED
  BY <1>1, <1>2, <1>3, <1>4, <1>5, <1>6 DEF Next, Exhausted

\* At every step what is left to a client is within what the service ever gave.
LEMMA LifeStep == TypeOK /\ LifeInv /\ [Next]_vars => LifeInv'
<1> SUFFICES ASSUME TypeOK, LifeInv, [Next]_vars, NEW c \in Clients
             PROVE  Refilled(c)' + Paid(passed'[c]) <= Bursts(restarts' + 1) + now'
  BY DEF LifeInv
<1> DEFINE Goal == Refilled(c)' + Paid(passed'[c]) <= Bursts(restarts' + 1) + now'
<1>1. /\ Refilled(c) + Paid(passed[c]) <= Bursts(restarts + 1) + now
      /\ Refilled(c) \in 0 .. Full /\ Full \in Nat /\ now \in Nat
      /\ passed[c] \in Nat /\ Paid(passed[c]) \in Int
      /\ restarts \in Nat /\ Bursts(restarts + 1) \in Int
  BY LifeTypes DEF LifeInv
<1>2. CASE Serve(c)
  <2>1. passed'[c] = passed[c] + 1 /\ restarts' = restarts
    BY <1>2 DEF Serve, TypeOK
  <2>2. Paid(passed'[c]) = Paid(passed[c]) + Cost
    BY <1>1, <2>1, PaidNext
  <2>3. Refilled(c)' = Refilled(c) - Cost /\ now' = now
    BY <1>2, ServeEffect
  <2> QED
    BY <1>1, <2>1, <2>2, <2>3, CostAssumption
<1>3. ASSUME NEW d \in Clients \ {c}, Serve(d) PROVE Goal
  <2>1. passed'[c] = passed[c] /\ restarts' = restarts
    BY <1>3 DEF Serve, TypeOK
  <2>2. Refilled(c)' = Refilled(c) /\ now' = now
    BY <1>3, ServeEffect
  <2> QED
    BY <1>1, <2>1, <2>2
<1>4. ASSUME NEW d \in Clients, Refuse(d) PROVE Goal
  <2>1. passed' = passed /\ restarts' = restarts
    BY <1>4 DEF Refuse
  <2>2. Refilled(c)' = Refilled(c) /\ now' = now
    BY <1>4, RefuseEffect
  <2> QED
    BY <1>1, <2>1, <2>2
<1>5. CASE Restart
  <2>1. passed' = passed /\ restarts' = restarts + 1 /\ now' = now
    BY <1>5 DEF Restart
  <2>2. Refilled(c)' = Full
    BY <1>5, RestartEffect
  <2>3. Bursts(restarts' + 1) = Bursts(restarts + 1) + Full
    BY <1>1, <2>1 DEF Bursts
  <2> QED
    BY <1>1, <2>1, <2>2, <2>3
<1>6. CASE Tick
  <2>1. passed' = passed /\ restarts' = restarts
    BY <1>6 DEF Tick
  <2>2. Refilled(c)' = (IF Refilled(c) < Full THEN Refilled(c) + 1 ELSE Full)
        /\ now' = now + 1
    BY <1>6, TickEffect
  <2> QED
    BY <1>1, <2>1, <2>2
<1>7. CASE UNCHANGED vars
  <2>1. UNCHANGED <<now, buckets, passed, restarts>>
    BY <1>7 DEF vars, process
  <2>2. Refilled(c)' = Refilled(c)
    BY <2>1, RefilledSame
  <2> QED
    BY <1>1, <2>1, <2>2
<1> QED
  BY <1>2, <1>3, <1>4, <1>5, <1>6, <1>7 DEF Next, Exhausted

\* A new process satisfies the invariant.
LEMMA InitiallyIInv == Init => IInv
<1> SUFFICES ASSUME Init PROVE IInv
  OBVIOUS
<1>1. TypeOK
  BY BoundsAssumption DEF Init, TypeOK
<1>2. ASSUME NEW c \in Clients PROVE DOMAIN served[c] = {} /\ Refilled(c) = Full
  <2>1. now \in Nat /\ served[c] = << >> /\ buckets[c] = NoBucket
    BY DEF Init
  <2>2. Refilled(c) = Full
    BY <2>1, FullType DEF Refilled, BucketOf
  <2> QED
    BY <2>1, <2>2
<1>3. LifeInv
  <2>1. Paid(0) = 0 /\ Bursts(0 + 1) = Full
    BY CostAssumption, FullType DEF Paid, Bursts
  <2>2. now = 0 /\ restarts = 0 /\ \A c \in Clients : passed[c] = 0
    BY DEF Init
  <2> SUFFICES ASSUME NEW c \in Clients
               PROVE  Refilled(c) + Paid(passed[c]) <= Bursts(restarts + 1) + now
    BY DEF LifeInv
  <2>3. Paid(passed[c]) = 0 /\ Bursts(restarts + 1) = Full
    BY <2>1, <2>2
  <2> QED
    BY <1>2, <2>2, <2>3, FullType
<1> QED
  BY <1>1, <1>2, <1>3 DEF IInv, PastInv, UpperInv, LowerInv, WindowBound

\* The invariant holds in every reachable state.
LEMMA AlwaysIInv == Spec => []IInv
<1>1. IInv /\ [Next]_vars => IInv'
  BY TypeStep, PastStep, UpperStep, LowerStep, WindowStep, LifeStep DEF IInv
<1> QED
  BY <1>1, InitiallyIInv, PTL DEF Spec

\* The buckets, and the times kept about them, always hold what they should.
THEOREM TypeCorrect == Spec => []TypeOK
BY AlwaysIInv, PTL DEF IInv

\* No window of any length sees more requests of a client pass the middleware
\* than its burst and its rate allow.
THEOREM WindowsAreBounded == Spec => []WindowBound
BY AlwaysIInv, PTL DEF IInv

\* Over all restarts a client passes the middleware no more often than the bursts of
\* all processes and its rate allow.
THEOREM RestartsGiveBursts == Spec => []RestartsAreBursts
<1>1. IInv => RestartsAreBursts
  <2> SUFFICES ASSUME IInv, NEW c \in Clients
               PROVE  passed[c] * Cost <= (restarts + 1) * Full + now
    BY DEF RestartsAreBursts
  <2>1. Refilled(c) + Paid(passed[c]) <= Bursts(restarts + 1) + now
    BY DEF IInv, LifeInv
  <2>2. /\ Refilled(c) \in 0 .. Full /\ Full \in Nat /\ now \in Nat
        /\ Paid(passed[c]) \in Int /\ Bursts(restarts + 1) \in Int
    BY LifeTypes DEF IInv
  <2>3. Paid(passed[c]) <= Bursts(restarts + 1) + now
    BY <2>1, <2>2
  <2> QED
    BY <2>3 DEF Paid, Bursts
<1> QED
  BY <1>1, AlwaysIInv, PTL

\* A bucket that cannot pay is short over some window.
LEMMA ShortWindow ==
  ASSUME IInv, NEW c \in Clients, Refilled(c) < Cost
  PROVE  \E i \in DOMAIN served[c] :
             Refilled(c) + Paid(Since(c, i)) = Full + now - served[c][i]
<1>1. Refilled(c) # Full
  BY FullType, RefilledType, CostAssumption DEF IInv
<1> QED
  BY <1>1 DEF IInv, LowerInv

\* A 429 always has a request of the same client, served less than 1/rate ago,
\* to blame: RateLimitMiddleware._allow keeps the refill of a refused request.
THEOREM RefusalsHaveCauses == Spec => RefusalHasCause
<1> DEFINE Cause(c) == limited'[c] > limited[c] =>
               /\ served[c] # << >>
               /\ now - served[c][Len(served[c])] < Cost
<1>1. ASSUME IInv, NEW c \in Clients, Refuse(c)
      PROVE  served[c] # << >> /\ now - served[c][Len(served[c])] < Cost
  <2> DEFINE n == Len(served[c])
  <2>1. Refilled(c) < Cost
    BY <1>1 DEF Refuse
  <2>2. PICK i \in DOMAIN served[c] :
            Refilled(c) + Paid(Since(c, i)) = Full + now - served[c][i]
    BY <1>1, <2>1, ShortWindow
  <2>3. TypeOK
    BY <1>1 DEF IInv
  <2>4. served[c] \in Seq(0 .. MaxTime) /\ i \in 1 .. n /\ n \in DOMAIN served[c]
    BY <2>3 DEF TypeOK
  <2>5. Paid(Since(c, i)) <= Full + served[c][n] - served[c][i]
    BY <1>1, <2>4 DEF IInv, WindowBound, Paid, Since
  <2>6. /\ now \in Int /\ served[c][i] \in Int /\ served[c][n] \in Int
        /\ Paid(Since(c, i)) \in Int /\ Refilled(c) \in Int
    BY <2>3, <2>4, WindowTypes
  <2>7. now - served[c][n] < Cost
    BY <2>1, <2>2, <2>5, <2>6, FullType, CostAssumption
  <2> QED
    BY <2>4, <2>7
<1>2. ASSUME IInv, [Next]_vars, NEW c \in Clients PROVE Cause(c)
  <2>1. limited[c] \in Nat
    BY <1>2 DEF IInv, TypeOK
  <2>2. ASSUME limited'[c] > limited[c] PROVE Refuse(c)
    <3>1. ASSUME NEW d \in Clients, Serve(d) PROVE FALSE
      BY <2>1, <2>2, <3>1 DEF Serve
    <3>2. ASSUME NEW d \in Clients \ {c}, Refuse(d) PROVE FALSE
      BY <1>2, <2>1, <2>2, <3>2 DEF Refuse, IInv, TypeOK
    <3>3. CASE Restart
      BY <2>1, <2>2, <3>3 DEF Restart
    <3>4. CASE Tick \/ UNCHANGED vars
      BY <2>1, <2>2, <3>4 DEF Tick, vars, process
    <3> QED
      BY <1>2, <3>1, <3>2, <3>3, <3>4 DEF Next, Exhausted
  <2> QED
    BY <1>1, <1>2, <2>2
<1>3. IInv /\ [Next]_vars => [\A c \in Clients : Cause(c)]_vars
  BY <1>2
<1> QED
  BY <1>3, AlwaysIInv, PTL DEF Spec, RefusalHasCause

-----------------------------------------------------------------------------
\* A request the bucket serves is within the allowance of ArrivalCurve ...
LEMMA ServeConforms ==
  ASSUME IInv, IInv', NEW c \in Clients, Serve(c)
  PROVE  Promise!Serve(c)
<1>1. served'[c] = Append(served[c], now) /\ served'[c] \in Seq(0 .. MaxTime)
  BY DEF Serve, IInv, TypeOK
<1>2. served'[c] # << >>
  <2>1. served[c] \in Seq(0 .. MaxTime) /\ now \in 0 .. MaxTime
    BY DEF IInv, TypeOK
  <2> QED
    BY <1>1, <2>1, AppendProperties
<1>3. Promise!Conforms(served'[c])
  <2>1. /\ Len(served'[c]) \in DOMAIN served'[c]
        /\ \A i \in DOMAIN served'[c] : i <= Len(served'[c])
    BY <1>1, <1>2
  <2> QED
    BY <2>1 DEF IInv, WindowBound, Full, Promise!Conforms
<1> QED
  BY <1>1, <1>3 DEF Serve, CanAsk, Promise!Serve, Promise!CanAsk

\* ... and one it refuses is not.
LEMMA RefuseExceeds ==
  ASSUME IInv, NEW c \in Clients, Refuse(c)
  PROVE  Promise!Refuse(c)
<1> DEFINE s == Append(served[c], now)
<1>1. PICK i \in DOMAIN served[c] :
          Refilled(c) + Paid(Since(c, i)) = Full + now - served[c][i]
  BY ShortWindow DEF Refuse
<1>2. TypeOK /\ now \in 0 .. MaxTime /\ served[c] \in Seq(0 .. MaxTime)
  BY DEF IInv, TypeOK
<1>3. /\ Len(s) = Len(served[c]) + 1 /\ s[Len(s)] = now
      /\ i \in DOMAIN s /\ s[i] = served[c][i]
  BY <1>2, AppendProperties
<1>4. Len(s) - i + 1 = Since(c, i) + 1
  BY <1>1, <1>2, <1>3, WindowTypes DEF Since
<1>5. Paid(Len(s) - i + 1) = Paid(Since(c, i)) + Cost
  BY <1>1, <1>2, <1>4, PaidNext, WindowTypes
<1>6. Refilled(c) < Cost
  BY DEF Refuse
<1>7. ~ (Paid(Len(s) - i + 1) <= Full + s[Len(s)] - s[i])
  <2>1. /\ now \in Int /\ served[c][i] \in Int
        /\ Paid(Since(c, i)) \in Int /\ Refilled(c) \in Int
    BY <1>1, <1>2, WindowTypes
  <2> QED
    BY <1>1, <1>3, <1>5, <1>6, <2>1, FullType, CostAssumption
<1>8. ~ Promise!Conforms(s)
  BY <1>3, <1>7 DEF Promise!Conforms, Paid, Full
<1> QED
  BY <1>8 DEF Refuse, CanAsk, Promise!Refuse, Promise!CanAsk

\* The middleware serves and refuses exactly the requests that the allowance
\* over all windows serves and refuses.
THEOREM BucketImplementsArrivalCurve == Spec => ImplementsArrivalCurve
<1>1. Init => Promise!Init
  BY DEF Init, Promise!Init
<1>2. IInv /\ IInv' /\ [Next]_vars => [Promise!Next]_(Promise!vars)
  <2> SUFFICES ASSUME IInv, IInv', [Next]_vars
               PROVE  Promise!Next \/ UNCHANGED Promise!vars
    OBVIOUS
  <2>1. ASSUME NEW c \in Clients, Serve(c) PROVE Promise!Next
    BY <2>1, ServeConforms DEF Promise!Next
  <2>2. ASSUME NEW c \in Clients, Refuse(c) PROVE Promise!Next
    BY <2>2, RefuseExceeds DEF Promise!Next
  <2>3. CASE Restart
    BY <2>3 DEF Restart, Promise!Next, Promise!Restart
  <2>4. CASE Tick
    BY <2>4 DEF Tick, process, Promise!Next, Promise!Tick
  <2>5. CASE UNCHANGED vars
    BY <2>5 DEF vars, process, Promise!vars
  <2> QED
    BY <2>1, <2>2, <2>3, <2>4, <2>5 DEF Next, Exhausted
<1> QED
  BY <1>1, <1>2, AlwaysIInv, PTL DEF Spec, Promise!Spec, ImplementsArrivalCurve
=============================================================================
