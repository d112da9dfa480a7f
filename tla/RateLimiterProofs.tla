------------------------- MODULE RateLimiterProofs -------------------------
(***************************************************************************)
(* Proofs about RateLimiter, for any clients, limits, delays and horizon.  *)
(*                                                                         *)
(* RateBounded is not inductive: it says nothing of the tokens.  BucketInv *)
(* relates the tokens of a bucket to the history: what was spent since t   *)
(* and what is left never exceed what the bucket could hold and gain since *)
(* t (Solvent), and for some t they are all of it (Exact).  A client whose *)
(* bucket was swept has been idle for a Retention, and is forgiven what a  *)
(* full bucket exceeds that by (Idle).  Both count with n, the sweeps that *)
(* took the client's bucket since t.                                       *)
(***************************************************************************)
EXTENDS RateLimiter, TLAPS

\* In x ticks, long enough for n sweeps of the bucket, y units may be spent.
Allows(n, x, y) == n * Retention <= x /\ y <= x + n * Forgiven

Solvent(b, s) ==
    /\ b.last <= clock
    /\ \A t \in Times : s[t] > 0 =>
          \E n \in Nat :
             /\ Allows(n, b.last + MaxWait - t, s[t] + b.tokens - Capacity)
             /\ n * Retention <= clock - t

Exact(b, s) ==
    \E t \in Times :
        t <= b.last /\ s[t] + b.tokens >= Capacity + (b.last - t)

Idle(s) == \A t \in Times : s[t] > 0 => \E n \in Nat : Allows(n, clock - t, s[t])

BucketGood(b, s) == IF b = Null THEN Idle(s) ELSE Solvent(b, s) /\ Exact(b, s)

BucketInv == \A k \in Keys : BucketGood(rateBuckets[k], spent[k])

IInv == TypeOK /\ BucketInv

\* The capacity of a bucket is a natural number.
LEMMA CapacityNat == Capacity \in Nat
<1>1. \A x, y \in Nat : x * y \in Nat
  OBVIOUS
<1>. QED  BY <1>1, LimiterAssumption DEF LimiterAssumption, Capacity

\* A bucket is a record of its two fields, both numbers, and is not Null.
LEMMA BucketFields ==
    /\ \A b \in tokenBucket : b.tokens \in Nat /\ b.tokens <= Capacity /\ b.last \in Times
    /\ \A b \in tokenBucket : b # Null
    /\ \A n, l : n \in 0 .. Capacity /\ l \in Times => [tokens |-> n, last |-> l] \in tokenBucket
BY CapacityNat, LimiterAssumption DEF LimiterAssumption, tokenBucket

\* A bucket cannot be forgotten before a Retention has passed.
LEMMA RetentionNat ==
    /\ Retention \in Nat \ {0} /\ Forgiven \in Nat
    /\ Capacity <= Retention + Forgiven /\ TTL + 1 = Retention + MaxWait
BY CapacityNat, LimiterAssumption DEF LimiterAssumption, Retention, Forgiven

\* n Retentions are a number of ticks, no less than n.
LEMMA Multiples ==
    \A n \in Nat :
        /\ n * Retention \in Nat /\ n * Forgiven \in Nat /\ n <= n * Retention
        /\ (n + 1) * Retention = n * Retention + Retention
        /\ (n + 1) * Forgiven = n * Forgiven + Forgiven
<1>1. \A n, x \in Nat : n * x \in Nat /\ (n + 1) * x = n * x + x
  OBVIOUS
<1>2. \A n, x \in Nat : n * (x + 1) = n * x + n
  OBVIOUS
<1>3. ASSUME NEW n \in Nat
      PROVE  n <= n * Retention
  <2>1. PICK x \in Nat : Retention = x + 1
    BY RetentionNat
  <2>2. n * x \in Nat /\ n * Retention = n * x + n
    BY <1>1, <1>2, <2>1
  <2>. QED  BY <2>2
<1>. QED  BY <1>1, <1>3, RetentionNat

\* d more ticks allow d more units.
LEMMA AllowsMore ==
    ASSUME NEW n \in Nat, NEW x \in Int, NEW y \in Int, Allows(n, x, y),
           NEW d \in Nat, NEW z \in Int, z <= y + d
    PROVE  Allows(n, x + d, z)
BY Multiples DEF Allows

\* A Retention later, and a sweep, they allow a full bucket more.
LEMMA AllowsAgain ==
    ASSUME NEW n \in Nat, NEW x \in Int, NEW y \in Int, Allows(n, x, y),
           NEW w \in Int, x + Retention <= w, NEW z \in Int, z <= y + Capacity
    PROVE  Allows(n + 1, w, z)
<1>1. /\ (n + 1) * Retention = n * Retention + Retention
      /\ (n + 1) * Forgiven = n * Forgiven + Forgiven
      /\ n * Retention \in Nat /\ n * Forgiven \in Nat
  BY Multiples
<1>2. n * Retention <= x /\ y <= x + n * Forgiven
  BY DEF Allows
<1>3. n * Retention + Retention <= w /\ z <= w + (n * Forgiven + Forgiven)
  BY ONLY <1>1, <1>2, RetentionNat, CapacityNat, x + Retention <= w, z <= y + Capacity,
          x \in Int, y \in Int, w \in Int, z \in Int
<1>. QED  BY <1>1, <1>3 DEF Allows

\* The sweep keeps the buckets' types and, a removed bucket being one that would
\* have filled up long since, the relation of each to its client's history.
LEMMA SweepKeeps ==
    ASSUME IInv, NEW now \in Readings
    PROVE  /\ SweptBuckets(now) \in [Keys -> tokenBucket \cup {Null}]
           /\ SweptAt(now) \in Times \cup {Null}
           /\ \A k \in Keys : BucketGood(SweptBuckets(now)[k], spent[k])
<1>1. now \in Times /\ now <= clock /\ clock \in Times /\ Times \subseteq Nat
  BY LimiterAssumption DEF LimiterAssumption, Readings, IInv, TypeOK, Times
<1>2. SweptBuckets(now) \in [Keys -> tokenBucket \cup {Null}]
  BY DEF SweptBuckets, IInv, TypeOK
<1>3. SweptAt(now) \in Times \cup {Null}
  BY <1>1 DEF SweptAt, IInv, TypeOK
<1>4. ASSUME NEW k \in Keys
      PROVE  BucketGood(SweptBuckets(now)[k], spent[k])
  <2>1. BucketGood(rateBuckets[k], spent[k])
    BY DEF IInv, BucketInv
  <2>2. CASE SweptBuckets(now)[k] = rateBuckets[k]
    BY <2>1, <2>2
  <2>3. CASE SweptBuckets(now)[k] # rateBuckets[k]
    <3>1. /\ SweptBuckets(now)[k] = Null /\ rateBuckets[k] # Null
          /\ Stale(rateBuckets[k], now)
      BY <2>3 DEF SweptBuckets
    <3>2. rateBuckets[k] \in tokenBucket
      BY <3>1 DEF IInv, TypeOK
    <3>3. Solvent(rateBuckets[k], spent[k])
      BY <2>1, <3>1 DEF BucketGood
    <3>4. ASSUME NEW t \in Times, spent[k][t] > 0
          PROVE  \E n \in Nat : Allows(n, clock - t, spent[k][t])
      <4> DEFINE last == rateBuckets[k].last
                 left == rateBuckets[k].tokens
      <4>1. PICK n \in Nat : Allows(n, last + MaxWait - t, spent[k][t] + left - Capacity)
        BY <3>3, <3>4 DEF Solvent
      <4>2. now - last > TTL
        BY <3>1 DEF Stale
      <4>3. spent[k][t] \in Nat
        BY DEF IInv, TypeOK
      <4>4. TTL \in Nat /\ MaxWait \in Nat /\ left \in Nat /\ last \in Nat /\ t \in Nat
        BY <1>1, <3>2, BucketFields, LimiterAssumption DEF LimiterAssumption
      <4> HIDE DEF last, left
      <4>5. (last + MaxWait - t) + Retention <= clock - t
        BY <4>2, <4>4, <1>1, RetentionNat
      <4>6. spent[k][t] <= (spent[k][t] + left - Capacity) + Capacity
        BY <4>3, <4>4, CapacityNat
      <4>7. /\ last + MaxWait - t \in Int /\ spent[k][t] + left - Capacity \in Int
            /\ clock - t \in Int /\ spent[k][t] \in Int /\ n + 1 \in Nat
        BY <4>3, <4>4, <1>1, CapacityNat
      <4>8. Allows(n + 1, clock - t, spent[k][t])
        BY ONLY <4>1, <4>5, <4>6, <4>7, n \in Nat, AllowsAgain
      <4>. QED  BY <4>7, <4>8
    <3>. QED  BY <3>1, <3>4 DEF BucketGood, Idle
  <2>. QED  BY <2>2, <2>3
<1>. QED  BY <1>2, <1>3, <1>4

\* The bucket a request finds, refilled or new, is solvent and exact, and is not
\* older than the request's reading of the clock.
LEMMA FoundIsGood ==
    ASSUME IInv, NEW k \in Keys, NEW now \in Readings
    PROVE  /\ Found(k, now) \in tokenBucket
           /\ now <= Found(k, now).last
           /\ Solvent(Found(k, now), spent[k])
           /\ Exact(Found(k, now), spent[k])
<1> DEFINE old == SweptBuckets(now)[k]
           s == spent[k]
<1>1. /\ now \in Times /\ now <= clock /\ clock <= now + MaxWait /\ clock \in Times
      /\ Times \subseteq Nat /\ MaxWait \in Nat
  BY LimiterAssumption DEF LimiterAssumption, Readings, IInv, TypeOK, Times
<1>2. BucketGood(old, s) /\ old \in tokenBucket \cup {Null}
  BY SweepKeeps
<1>3. \A t \in Times : s[t] \in Nat
  BY DEF IInv, TypeOK
<1>4. CASE old = Null
  <2> DEFINE b == [tokens |-> Capacity, last |-> now]
  <2>1. Found(k, now) = b
    BY <1>4 DEF Found
  <2>2. b \in tokenBucket
    BY <1>1, CapacityNat, BucketFields
  <2>3. ASSUME NEW t \in Times, s[t] > 0
        PROVE  \E n \in Nat : /\ Allows(n, now + MaxWait - t, s[t] + Capacity - Capacity)
                              /\ n * Retention <= clock - t
    <3>1. PICK n \in Nat : Allows(n, clock - t, s[t])
      BY <1>2, <1>4, <2>3 DEF BucketGood, Idle
    <3> DEFINE d == now + MaxWait - clock
    <3>2. /\ d \in Nat /\ clock - t \in Int /\ s[t] \in Int /\ s[t] + Capacity - Capacity \in Int
          /\ s[t] + Capacity - Capacity <= s[t] + d
          /\ (clock - t) + d = now + MaxWait - t
      BY <1>1, <1>3, CapacityNat
    <3> HIDE DEF d
    <3>3. Allows(n, (clock - t) + d, s[t] + Capacity - Capacity)
      BY ONLY <3>1, <3>2, n \in Nat, AllowsMore
    <3>. QED  BY <3>1, <3>2, <3>3 DEF Allows
  <2>4. Solvent(b, s)
    BY <2>3, <1>1 DEF Solvent
  <2>5. now <= now /\ s[now] + Capacity >= Capacity + (now - now)
    BY <1>1, <1>3, CapacityNat
  <2>6. Exact(b, s)
    BY <2>5, <1>1 DEF Exact
  <2>7. now <= b.last
    BY <1>1
  <2> HIDE DEF b
  <2>. QED  BY <2>1, <2>2, <2>4, <2>6, <2>7
<1>5. CASE old # Null
  <2>1. old \in tokenBucket /\ Solvent(old, s) /\ Exact(old, s)
    BY <1>2, <1>5 DEF BucketGood
  <2>2. /\ old.tokens \in Nat /\ old.tokens <= Capacity
        /\ old.last \in Times /\ old.last \in Nat
    BY <2>1, <1>1, BucketFields
  <2>3. Found(k, now) = Refilled(old, now)
    BY <1>5 DEF Found
  <2>4. CASE now <= old.last
    <3>1. Refilled(old, now) = old
      BY <2>4, <2>2, <1>1 DEF Refilled
    <3>. QED  BY <3>1, <2>1, <2>3, <2>4
  <2>5. ASSUME now > old.last, NEW x \in 0 .. Capacity, x <= old.tokens + (now - old.last)
        PROVE  \A t \in Times : s[t] > 0 =>
                  \E m \in Nat : /\ Allows(m, now + MaxWait - t, s[t] + x - Capacity)
                                 /\ m * Retention <= clock - t
    <3> SUFFICES ASSUME NEW t \in Times, s[t] > 0
                 PROVE  \E m \in Nat : /\ Allows(m, now + MaxWait - t, s[t] + x - Capacity)
                                       /\ m * Retention <= clock - t
      OBVIOUS
    <3>1. PICK m \in Nat : /\ Allows(m, old.last + MaxWait - t, s[t] + old.tokens - Capacity)
                           /\ m * Retention <= clock - t
      BY <2>1 DEF Solvent
    <3> DEFINE e == now - old.last
    <3>2. /\ e \in Nat /\ old.last + MaxWait - t \in Int
          /\ s[t] + old.tokens - Capacity \in Int /\ s[t] + x - Capacity \in Int
          /\ s[t] + x - Capacity <= (s[t] + old.tokens - Capacity) + e
          /\ (old.last + MaxWait - t) + e = now + MaxWait - t
      BY <1>1, <1>3, <2>2, <2>5, CapacityNat
    <3> HIDE DEF e
    <3>3. Allows(m, (old.last + MaxWait - t) + e, s[t] + x - Capacity)
      BY ONLY <3>1, <3>2, m \in Nat, AllowsMore
    <3>. QED  BY <3>1, <3>2, <3>3
  <2>6. CASE now > old.last /\ old.tokens + (now - old.last) < Capacity
    <3> DEFINE n == old.tokens + (now - old.last)
               b == [tokens |-> n, last |-> now]
    <3>1. Found(k, now) = b
      BY <2>3, <2>6 DEF Refilled
    <3>2. n \in 0 .. Capacity
      BY <2>6, <2>2, <1>1, CapacityNat
    <3>3. b \in tokenBucket
      BY <3>2, <1>1, BucketFields
    <3>4. \A t \in Times : s[t] > 0 =>
            \E m \in Nat : /\ Allows(m, now + MaxWait - t, s[t] + n - Capacity)
                           /\ m * Retention <= clock - t
      BY <2>6, <2>5, <3>2, <1>1
    <3>5. Solvent(b, s)
      BY <3>4, <1>1 DEF Solvent
    <3>6. PICK t \in Times : t <= old.last /\ s[t] + old.tokens >= Capacity + (old.last - t)
      BY <2>1 DEF Exact
    <3>7. t <= now /\ s[t] + n >= Capacity + (now - t)
      BY <3>6, <2>6, <2>2, <1>1, <1>3, CapacityNat
    <3>8. Exact(b, s)
      BY <3>7 DEF Exact
    <3>9. now <= b.last
      BY <1>1
    <3> HIDE DEF b, n
    <3>. QED  BY <3>1, <3>3, <3>5, <3>8, <3>9
  <2>7. CASE now > old.last /\ ~(old.tokens + (now - old.last) < Capacity)
    <3> DEFINE b == [tokens |-> Capacity, last |-> now]
    <3>1. Found(k, now) = b
      BY <2>3, <2>7 DEF Refilled
    <3>2. b \in tokenBucket
      BY <1>1, CapacityNat, BucketFields
    <3>3. \A t \in Times : s[t] > 0 =>
            \E m \in Nat : /\ Allows(m, now + MaxWait - t, s[t] + Capacity - Capacity)
                           /\ m * Retention <= clock - t
      <4>1. Capacity \in 0 .. Capacity
        BY CapacityNat
      <4>. QED  BY <2>7, <2>2, <2>5, <4>1, <1>1, CapacityNat
    <3>4. Solvent(b, s)
      BY <3>3, <1>1 DEF Solvent
    <3>5. now <= now /\ s[now] + Capacity >= Capacity + (now - now)
      BY <1>1, <1>3, CapacityNat
    <3>6. Exact(b, s)
      BY <3>5, <1>1 DEF Exact
    <3>7. now <= b.last
      BY <1>1
    <3> HIDE DEF b
    <3>. QED  BY <3>1, <3>2, <3>4, <3>6, <3>7
  <2>. QED  BY <2>4, <2>6, <2>7, <2>2, <1>1
<1>. QED  BY <1>4, <1>5

-----------------------------------------------------------------------------

\* Initially no client has a bucket or a history.
LEMMA InitHolds == Init => IInv
<1> SUFFICES ASSUME Init PROVE IInv
  OBVIOUS
<1>1. 0 \in Times /\ 0 \in Nat
  BY LimiterAssumption DEF LimiterAssumption, Times
<1>2. TypeOK
  BY <1>1 DEF Init, TypeOK
<1>3. ASSUME NEW k \in Keys
      PROVE  BucketGood(rateBuckets[k], spent[k])
  <2>1. rateBuckets[k] = Null /\ \A t \in Times : ~(spent[k][t] > 0)
    BY DEF Init
  <2>. QED  BY <2>1 DEF BucketGood, Idle
<1>. QED  BY <1>2, <1>3 DEF IInv, BucketInv

\* An admitted request moves Cost units from its bucket to its client's history.
LEMMA AdmitKeeps ==
    ASSUME IInv, NEW k \in Keys, NEW now \in Readings, Admit(k, now)
    PROVE  IInv'
<1> DEFINE f == Found(k, now)
           b == [tokens |-> f.tokens - Cost, last |-> f.last]
           s == [t \in Times |-> IF t <= clock THEN spent[k][t] + Cost ELSE spent[k][t]]
<1>1. /\ now \in Times /\ now <= clock /\ clock <= now + MaxWait /\ clock \in Times
      /\ Times \subseteq Nat /\ MaxWait \in Nat /\ Cost \in Nat \ {0}
  BY LimiterAssumption DEF LimiterAssumption, Readings, IInv, TypeOK, Times
<1>2. /\ f \in tokenBucket /\ now <= f.last
      /\ Solvent(f, spent[k]) /\ Exact(f, spent[k])
  BY FoundIsGood
<1>3. /\ f.tokens \in Nat /\ f.tokens <= Capacity /\ f.last \in Times /\ f.last \in Nat
      /\ Cost <= f.tokens
  BY <1>1, <1>2, BucketFields DEF Admit
<1>4. b \in tokenBucket
  <2>1. f.tokens - Cost \in 0 .. Capacity
    BY <1>1, <1>3, CapacityNat
  <2>. QED  BY <2>1, <1>3, BucketFields
<1>5. \A t \in Times : spent[k][t] \in Nat
  BY DEF IInv, TypeOK
<1>6. s \in [Times -> Nat]
  BY <1>1, <1>5
<1>7. /\ rateBuckets' = [SweptBuckets(now) EXCEPT ![k] = b]
      /\ spent' = [spent EXCEPT ![k] = s]
      /\ lastSweep' = SweptAt(now) /\ clock' = clock
  BY DEF Admit, Swept
<1>8. TypeOK'
  <2>1. rateBuckets' \in [Keys -> tokenBucket \cup {Null}]
    BY <1>4, <1>7, SweepKeeps
  <2>2. spent' \in [Keys -> [Times -> Nat]]
    BY <1>6, <1>7 DEF IInv, TypeOK
  <2>3. lastSweep' \in Times \cup {Null} /\ clock' \in Times
    BY <1>1, <1>7, SweepKeeps
  <2>. QED  BY <2>1, <2>2, <2>3 DEF TypeOK
<1>9. ASSUME NEW t \in Times, s[t] > 0
      PROVE  \E n \in Nat : /\ Allows(n, b.last + MaxWait - t, s[t] + b.tokens - Capacity)
                            /\ n * Retention <= clock - t
  <2> DEFINE x == f.last + MaxWait - t
  <2>0. t \in Nat
    BY <1>1
  <2>1. CASE spent[k][t] > 0
    <3>1. PICK n \in Nat : /\ Allows(n, x, spent[k][t] + f.tokens - Capacity)
                           /\ n * Retention <= clock - t
      BY <1>2, <2>1 DEF Solvent
    <3>2. s[t] <= spent[k][t] + Cost /\ s[t] \in Nat
      BY <1>1, <1>5
    <3>3. /\ x \in Int /\ spent[k][t] + f.tokens - Capacity \in Int
          /\ s[t] + b.tokens - Capacity \in Int /\ 0 \in Nat /\ x + 0 = x
          /\ s[t] + b.tokens - Capacity <= (spent[k][t] + f.tokens - Capacity) + 0
      BY <3>2, <2>0, <1>1, <1>3, <1>5, CapacityNat
    <3> HIDE DEF x
    <3>4. Allows(n, x + 0, s[t] + b.tokens - Capacity)
      BY ONLY <3>1, <3>3, n \in Nat, AllowsMore
    <3>. QED  BY <3>1, <3>3, <3>4 DEF x
  <2>2. CASE spent[k][t] = 0
    <3>1. t <= clock /\ s[t] = Cost
      BY <2>2, <1>9, <1>1
    <3>2. 0 * Retention = 0 /\ 0 * Forgiven = 0
      BY RetentionNat
    <3>3. 0 <= x /\ s[t] + b.tokens - Capacity <= x + 0 /\ 0 <= clock - t
      BY <3>1, <2>0, <1>1, <1>2, <1>3, CapacityNat
    <3>4. Allows(0, x, s[t] + b.tokens - Capacity) /\ 0 * Retention <= clock - t
      BY <3>2, <3>3 DEF Allows
    <3>. QED  BY <3>4
  <2>. QED  BY <2>1, <2>2, <1>5
<1>10. b.last <= clock
  BY <1>2 DEF Solvent
<1>11. Exact(b, s)
  <2>1. PICK t \in Times :
           t <= f.last /\ spent[k][t] + f.tokens >= Capacity + (f.last - t)
    BY <1>2 DEF Exact
  <2>2. t <= clock
    BY <2>1, <1>1, <1>3, <1>10
  <2>3. s[t] = spent[k][t] + Cost
    BY <2>2
  <2>4. s[t] + b.tokens >= Capacity + (b.last - t)
    BY <2>1, <2>3, <1>1, <1>3, <1>5, CapacityNat
  <2>. QED  BY <2>1, <2>4 DEF Exact
<1>12. Solvent(b, s)
  BY <1>9, <1>10 DEF Solvent
<1>13. ASSUME NEW q \in Keys
       PROVE  BucketGood(rateBuckets[q], spent[q])'
  <2>1. CASE q = k
    <3>1. rateBuckets'[q] = b /\ spent'[q] = s
      BY <1>7, <2>1, SweepKeeps DEF IInv, TypeOK
    <3>2. Solvent(rateBuckets[q], spent[q])' /\ Exact(rateBuckets[q], spent[q])'
      BY <3>1, <1>7, <1>11, <1>12 DEF Solvent, Exact
    <3>3. b # Null
      BY <1>4, BucketFields
    <3>. QED  BY <3>1, <3>2, <3>3 DEF BucketGood
  <2>2. CASE q # k
    <3>1. rateBuckets'[q] = SweptBuckets(now)[q] /\ spent'[q] = spent[q]
      BY <1>7, <2>2, SweepKeeps DEF IInv, TypeOK
    <3>2. BucketGood(SweptBuckets(now)[q], spent[q])
      BY SweepKeeps
    <3>. QED  BY <3>1, <3>2, <1>7 DEF BucketGood, Solvent, Exact, Idle, Allows
  <2>. QED  BY <2>1, <2>2
<1>. QED  BY <1>8, <1>13 DEF IInv, BucketInv

\* A refused request leaves behind the bucket it found, refilled or new.
LEMMA RejectKeeps ==
    ASSUME IInv, NEW k \in Keys, NEW now \in Readings, Reject(k, now)
    PROVE  IInv'
<1>1. /\ Found(k, now) \in tokenBucket
      /\ Solvent(Found(k, now), spent[k]) /\ Exact(Found(k, now), spent[k])
  BY FoundIsGood
<1>2. /\ rateBuckets' = [SweptBuckets(now) EXCEPT ![k] = Found(k, now)]
      /\ lastSweep' = SweptAt(now) /\ clock' = clock /\ spent' = spent
  BY DEF Reject, Swept
<1>3. TypeOK'
  BY <1>1, <1>2, SweepKeeps DEF IInv, TypeOK
<1>4. ASSUME NEW q \in Keys
      PROVE  BucketGood(rateBuckets[q], spent[q])'
  <2>1. CASE q = k
    <3>1. rateBuckets'[q] = Found(k, now)
      BY <1>2, <2>1, SweepKeeps
    <3>2. Found(k, now) # Null
      BY <1>1, BucketFields
    <3>. QED  BY <3>1, <3>2, <1>1, <1>2, <2>1 DEF BucketGood, Solvent, Exact
  <2>2. CASE q # k
    <3>1. rateBuckets'[q] = SweptBuckets(now)[q]
      BY <1>2, <2>2, SweepKeeps
    <3>2. BucketGood(SweptBuckets(now)[q], spent[q])
      BY SweepKeeps
    <3>. QED  BY <3>1, <3>2, <1>2 DEF BucketGood, Solvent, Exact, Idle, Allows
  <2>. QED  BY <2>1, <2>2
<1>. QED  BY <1>3, <1>4 DEF IInv, BucketInv

\* A sweep started by a login keeps the invariant.
LEMMA LoginSweepKeeps ==
    ASSUME IInv, NEW now \in Readings, LoginSweep(now)
    PROVE  IInv'
<1>1. /\ rateBuckets' = SweptBuckets(now)
      /\ lastSweep' = SweptAt(now) /\ clock' = clock /\ spent' = spent
  BY DEF LoginSweep, Swept
<1>2. TypeOK'
  BY <1>1, SweepKeeps DEF IInv, TypeOK
<1>3. \A q \in Keys : BucketGood(rateBuckets[q], spent[q])'
  BY <1>1, SweepKeeps DEF BucketGood, Solvent, Exact, Idle, Allows
<1>. QED  BY <1>2, <1>3 DEF IInv, BucketInv

\* The passing of time keeps the invariant.
LEMMA TickKeeps ==
    ASSUME IInv, Tick
    PROVE  IInv'
<1>1. /\ clock \in Times /\ clock' = clock + 1 /\ clock < MaxTime /\ MaxTime \in Nat
      /\ Times \subseteq Nat
  BY LimiterAssumption DEF LimiterAssumption, IInv, TypeOK, Tick, Times
<1>2. UNCHANGED <<rateBuckets, lastSweep, spent>>
  BY DEF Tick
<1>3. TypeOK'
  <2>1. clock' \in Times
    BY <1>1 DEF Times
  <2>. QED  BY <2>1, <1>2 DEF IInv, TypeOK
<1>4. ASSUME NEW q \in Keys
      PROVE  BucketGood(rateBuckets[q], spent[q])'
  <2>1. BucketGood(rateBuckets[q], spent[q])
    BY DEF IInv, BucketInv
  <2>2. \A t \in Times : spent[q][t] \in Nat
    BY DEF IInv, TypeOK
  <2>3. CASE rateBuckets[q] = Null
    <3>1. ASSUME NEW t \in Times, spent[q][t] > 0
          PROVE  \E n \in Nat : Allows(n, clock' - t, spent[q][t])
      <4>1. PICK n \in Nat : Allows(n, clock - t, spent[q][t])
        BY <2>1, <2>3, <3>1 DEF BucketGood, Idle
      <4>2. /\ clock - t \in Int /\ spent[q][t] \in Int /\ 1 \in Nat
            /\ spent[q][t] <= spent[q][t] + 1 /\ (clock - t) + 1 = clock' - t
        BY <1>1, <2>2
      <4>3. Allows(n, (clock - t) + 1, spent[q][t])
        BY ONLY <4>1, <4>2, n \in Nat, AllowsMore
      <4>. QED  BY <4>2, <4>3
    <3>. QED  BY <3>1, <2>3, <1>2 DEF BucketGood, Idle, Allows
  <2>4. CASE rateBuckets[q] # Null
    <3>1. rateBuckets[q].last \in Nat
      BY <2>4, <1>1, BucketFields DEF IInv, TypeOK
    <3>2. Solvent(rateBuckets[q], spent[q]) /\ Exact(rateBuckets[q], spent[q])
      BY <2>1, <2>4 DEF BucketGood
    <3>3. rateBuckets[q].last <= clock'
      BY <3>1, <3>2, <1>1 DEF Solvent
    <3>4. \A t \in Times, n \in Nat : n * Retention <= clock - t => n * Retention <= clock' - t
      BY <1>1, Multiples
    <3>5. Solvent(rateBuckets[q], spent[q])'
      BY <3>2, <3>3, <3>4, <1>2 DEF Solvent, Allows
    <3>6. Exact(rateBuckets[q], spent[q])'
      BY <3>2, <1>2 DEF Exact
    <3>. QED  BY <3>5, <3>6, <2>4, <1>2 DEF BucketGood
  <2>. QED  BY <2>3, <2>4
<1>. QED  BY <1>3, <1>4 DEF IInv, BucketInv

\* A restart brings back the initial tables.
LEMMA RestartKeeps ==
    ASSUME IInv, Restart
    PROVE  IInv'
<1>1. TypeOK'
  BY DEF IInv, TypeOK, Restart
<1>2. BucketInv'
  BY DEF Restart, BucketInv, BucketGood, Idle
<1>. QED  BY <1>1, <1>2 DEF IInv

\* Every step keeps the invariant.
LEMMA NextHolds == IInv /\ [Next]_vars => IInv'
<1> SUFFICES ASSUME IInv, [Next]_vars PROVE IInv'
  OBVIOUS
<1>1. ASSUME NEW k \in Keys, NEW now \in Readings, Admit(k, now)
      PROVE  IInv'
  BY <1>1, AdmitKeeps
<1>2. ASSUME NEW k \in Keys, NEW now \in Readings, Reject(k, now)
      PROVE  IInv'
  BY <1>2, RejectKeeps
<1>3. ASSUME NEW now \in Readings, LoginSweep(now)
      PROVE  IInv'
  BY <1>3, LoginSweepKeeps
<1>4. CASE Tick
  BY <1>4, TickKeeps
<1>5. CASE Restart
  BY <1>5, RestartKeeps
<1>6. CASE UNCHANGED vars
  BY <1>6 DEF vars, IInv, TypeOK, BucketInv, BucketGood, Solvent, Exact, Idle, Allows
<1>. QED  BY <1>1, <1>2, <1>3, <1>4, <1>5, <1>6 DEF Next

\* The invariant holds in every reachable state.
LEMMA Invariance == Spec => []IInv
BY InitHolds, NextHolds, PTL DEF Spec

\* The clock, the buckets, the time of the last sweep and the history keep their
\* types: in particular no refill and no reading out of order takes the tokens of
\* a bucket out of 0 .. Capacity (api.go:1442-1452).
THEOREM TypeCorrect == Spec => []TypeOK
<1>1. IInv => TypeOK
  BY DEF IInv
<1>. QED  BY <1>1, Invariance, PTL

\* No interval, however long and wherever it starts, admits more of a client's
\* requests than its burst, the refill of the interval and of the delay at the
\* mutex, and what a bucket that takes longer than Retention to fill is forgiven
\* at each sweep the interval has room for (api.go:1422-1452, 1504-1510): for any
\* burst, rate and rateTTL, as long as no request waits rateTTL for the mutex.
THEOREM RateIsBounded == Spec => []RateBounded
<1>1. IInv => RateBounded
  <2> SUFFICES ASSUME IInv, NEW k \in Keys, NEW t \in Times, t <= clock
               PROVE  \E n \in Times :
                         /\ n * Retention <= clock - t
                         /\ spent[k][t] <= Capacity + (clock - t) + MaxWait + n * Forgiven
    BY DEF RateBounded
  <2>1. /\ clock \in Nat /\ clock <= MaxTime /\ t \in Nat /\ MaxWait \in Nat
        /\ MaxTime \in Nat /\ spent[k][t] \in Nat
    BY LimiterAssumption DEF LimiterAssumption, IInv, TypeOK, Times
  <2>2. BucketGood(rateBuckets[k], spent[k])
    BY DEF IInv, BucketInv
  <2>3. SUFFICES \E n \in Nat :
                    /\ n * Retention <= clock - t
                    /\ spent[k][t] <= Capacity + (clock - t) + MaxWait + n * Forgiven
    <3>1. \A n \in Nat : n * Retention <= clock - t => n \in Times
      BY <2>1, Multiples DEF Times
    <3>. QED  BY <2>3, <3>1
  <2>4. CASE spent[k][t] = 0
    <3>1. 0 * Retention = 0 /\ 0 * Forgiven = 0
      BY RetentionNat
    <3>. QED  BY <2>1, <2>4, <3>1, CapacityNat
  <2>5. CASE spent[k][t] > 0 /\ rateBuckets[k] = Null
    <3>1. PICK n \in Nat : n * Retention <= clock - t /\ spent[k][t] <= clock - t + n * Forgiven
      BY <2>2, <2>5 DEF BucketGood, Idle, Allows
    <3>2. n * Forgiven \in Nat
      BY Multiples
    <3>. QED  BY <3>1, <3>2, <2>1, CapacityNat
  <2>6. CASE spent[k][t] > 0 /\ rateBuckets[k] # Null
    <3> DEFINE last == rateBuckets[k].last
               left == rateBuckets[k].tokens
    <3>1. /\ last <= clock
          /\ \E n \in Nat :
                /\ spent[k][t] + left - Capacity <= last + MaxWait - t + n * Forgiven
                /\ n * Retention <= clock - t
      BY <2>2, <2>6 DEF BucketGood, Solvent, Allows
    <3>2. left \in Nat /\ last \in Nat
      BY <2>6, BucketFields, LimiterAssumption DEF LimiterAssumption, IInv, TypeOK, Times
    <3> HIDE DEF last, left
    <3>3. \A n \in Nat : n * Forgiven \in Nat
      BY Multiples
    <3>. QED  BY <3>1, <3>2, <3>3, <2>1, CapacityNat
  <2>. QED  BY <2>1, <2>4, <2>5, <2>6
<1>. QED  BY <1>1, Invariance, PTL

\* A refused request would have exceeded the burst and the refill of some interval
\* (api.go:1447-1449): neither the sweep nor old clock readings cost a client tokens.
THEOREM RefusalsAreJustified == Spec => RefusalJustified
<1> DEFINE J == \A k \in Keys, now \in Readings :
                   Reject(k, now) =>
                       \E t \in 0 .. clock : spent[k][t] + Cost > Capacity + (now - t)
<1>1. IInv => J
  <2> SUFFICES ASSUME IInv, NEW k \in Keys, NEW now \in Readings, Reject(k, now)
               PROVE  \E t \in 0 .. clock : spent[k][t] + Cost > Capacity + (now - t)
    OBVIOUS
  <2> DEFINE f == Found(k, now)
  <2>1. f \in tokenBucket /\ now <= f.last /\ Solvent(f, spent[k]) /\ Exact(f, spent[k])
    BY FoundIsGood
  <2>2. PICK t \in Times : t <= f.last /\ spent[k][t] + f.tokens >= Capacity + (f.last - t)
    BY <2>1 DEF Exact
  <2>3. f.last <= clock /\ f.tokens < Cost
    BY <2>1 DEF Solvent, Reject
  <2>4. /\ f.tokens \in Nat /\ f.last \in Nat /\ Times \subseteq Nat /\ now \in Nat
        /\ Cost \in Nat /\ clock \in Nat /\ spent[k][t] \in Nat
    <3>1. Times \subseteq Nat /\ Cost \in Nat
      BY LimiterAssumption DEF LimiterAssumption, Times
    <3>2. now \in Times /\ clock \in Times /\ spent[k][t] \in Nat
      BY DEF IInv, TypeOK, Readings
    <3> HIDE DEF f
    <3>3. f.tokens \in Nat /\ f.last \in Times
      BY <2>1, BucketFields
    <3>. QED  BY <3>1, <3>2, <3>3
  <2>5. t \in 0 .. clock
    BY <2>2, <2>3, <2>4
  <2>6. spent[k][t] + Cost > Capacity + (now - t)
    BY <2>1, <2>2, <2>3, <2>4, CapacityNat
  <2>. QED  BY <2>5, <2>6
<1>2. IInv => [J]_vars
  BY <1>1
<1>. QED  BY <1>2, Invariance, PTL DEF RefusalJustified

=============================================================================
