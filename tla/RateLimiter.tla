---------------------------- MODULE RateLimiter ----------------------------
(***************************************************************************)
(* The token buckets in front of /api/admin/ (internal/control/api.go,     *)
(* allowAdminAPIRequest and sweepStateLocked).                             *)
(*                                                                         *)
(* A tick is the time in which a bucket gains one unit, and a request      *)
(* costs Cost units: ADMIN_RATE_LIMIT_RPS is one request every Cost ticks, *)
(* and ADMIN_RATE_LIMIT_BURST * Cost units fill a bucket.  A request reads *)
(* the wall clock before it waits for the server's mutex, so the `now` it  *)
(* works with is up to MaxWait ticks old, and the `now`s of consecutive    *)
(* holders of the mutex need not be in order.  (The code can switch the    *)
(* limiter off by a limit of zero, but config.getEnvInt returns none.)     *)
(***************************************************************************)
EXTENDS Integers

CONSTANTS
    Keys,           \* client addresses
    Null,
    Burst, Cost,
    TTL,            \* rateTTL, ten minutes
    SweepEvery,     \* time.Minute
    MaxWait,        \* bound: ticks between reading the clock and holding the mutex
    MaxTime         \* bound: the last tick of a behaviour

VARIABLES
    clock,
    rateBuckets,
    lastSweep,
    spent       \* history: units key k was charged at tick t or later

vars == <<clock, rateBuckets, lastSweep, spent>>

Capacity == Burst * Cost
Times == 0 .. MaxTime
tokenBucket == [tokens : 0 .. Capacity, last : Times]

(* The last conjunct: a request waits less for the mutex than rateTTL, ten *)
(* minutes.  Nothing is assumed of how long a bucket takes to fill: with   *)
(* the defaults 60 tokens are back in 3 s, but 65535 at one a second need  *)
(* eighteen hours, and the sweep forgets the bucket long before.           *)
ASSUME LimiterAssumption ==
    /\ Null \notin tokenBucket /\ Null \notin Nat
    /\ Burst \in Nat \ {0} /\ Cost \in Nat \ {0}
    /\ TTL \in Nat /\ SweepEvery \in Nat
    /\ MaxWait \in Nat /\ MaxTime \in Nat
    /\ MaxWait <= TTL

TypeOK ==
    /\ clock \in Times
    /\ rateBuckets \in [Keys -> tokenBucket \cup {Null}]
    /\ lastSweep \in Times \cup {Null}
    /\ spent \in [Keys -> [Times -> Nat]]

Init ==
    /\ clock = 0
    /\ rateBuckets = [k \in Keys |-> Null]
    /\ lastSweep = Null
    /\ spent = [k \in Keys |-> [t \in Times |-> 0]]

-----------------------------------------------------------------------------

\* The clock readings a holder of the mutex may work with.
Readings == {now \in Times : clock - MaxWait <= now /\ now <= clock}

SweepDue(now) == lastSweep = Null \/ now - lastSweep >= SweepEvery

SweptAt(now) == IF SweepDue(now) THEN now ELSE lastSweep

\* (Slip: idle for as long as the interval between two sweeps.)
Stale_Slip(bucket, now) == now - bucket.last > SweepEvery
Stale(bucket, now) == now - bucket.last > TTL

SweptBuckets(now) ==
    [k \in Keys |->
        IF rateBuckets[k] # Null /\ SweepDue(now) /\ Stale(rateBuckets[k], now)
        THEN Null ELSE rateBuckets[k]]

\* Slips: the cap forgotten; `last` moved back by an older reading; the
\* fraction of a token that has not come back yet lost.
Refilled_TypeSlip(bucket, now) ==
    IF now > bucket.last
    THEN [tokens |-> bucket.tokens + (now - bucket.last), last |-> now]
    ELSE bucket
Refilled_BackSlip(bucket, now) ==
    [tokens |-> IF now <= bucket.last THEN bucket.tokens
                ELSE IF bucket.tokens + (now - bucket.last) < Capacity
                THEN bucket.tokens + (now - bucket.last) ELSE Capacity,
     last |-> now]
Refilled_WholeSlip(bucket, now) ==
    IF now > bucket.last
    THEN [tokens |-> IF bucket.tokens + (now - bucket.last) < Capacity
                     THEN bucket.tokens + Cost * ((now - bucket.last) \div Cost)
                     ELSE Capacity,
          last |-> now]
    ELSE bucket

Refilled(bucket, now) ==
    IF now > bucket.last
    THEN [tokens |-> IF bucket.tokens + (now - bucket.last) < Capacity
                     THEN bucket.tokens + (now - bucket.last) ELSE Capacity,
          last |-> now]
    ELSE bucket

\* The bucket of k as the request finds it, a new one being full.
Found(k, now) ==
    LET old == SweptBuckets(now)[k] IN
    IF old = Null THEN [tokens |-> Capacity, last |-> now] ELSE Refilled(old, now)

Swept(now) == lastSweep' = SweptAt(now)

Admit(k, now) ==
    /\ Found(k, now).tokens >= Cost
    /\ rateBuckets' = [SweptBuckets(now) EXCEPT ![k] =
            [tokens |-> Found(k, now).tokens - Cost, last |-> Found(k, now).last]]
    /\ spent' = [spent EXCEPT ![k] =
            [t \in Times |-> IF t <= clock THEN spent[k][t] + Cost ELSE spent[k][t]]]
    /\ Swept(now)
    /\ UNCHANGED clock

Reject(k, now) ==
    /\ Found(k, now).tokens < Cost
    /\ rateBuckets' = [SweptBuckets(now) EXCEPT ![k] = Found(k, now)]
    /\ Swept(now)
    /\ UNCHANGED <<clock, spent>>

\* The login handlers hold the same mutex and sweep the same state.
LoginSweep(now) ==
    /\ rateBuckets' = SweptBuckets(now)
    /\ Swept(now)
    /\ UNCHANGED <<clock, spent>>

Tick ==
    /\ clock < MaxTime
    /\ clock' = clock + 1
    /\ UNCHANGED <<rateBuckets, lastSweep, spent>>

\* The tables live in memory; a restart empties them.  The history starts again.
Restart ==
    /\ rateBuckets' = [k \in Keys |-> Null]
    /\ lastSweep' = Null
    /\ spent' = [k \in Keys |-> [t \in Times |-> 0]]
    /\ UNCHANGED clock

Next ==
    \/ \E k \in Keys, now \in Readings : Admit(k, now) \/ Reject(k, now)
    \/ \E now \in Readings : LoginSweep(now)
    \/ Tick
    \/ Restart

Spec == Init /\ [][Next]_vars

-----------------------------------------------------------------------------

(* A bucket is forgotten at the earliest this long after a charge, with    *)
(* this much of its capacity not yet regained, which its client then gets. *)
Retention == TTL - MaxWait + 1
Forgiven == IF Capacity > Retention THEN Capacity - Retention ELSE 0

(* In every interval up to the present, of whatever length, one client is  *)
(* admitted at most Burst requests plus one for every Cost ticks of the    *)
(* interval and of the delay at the mutex, plus what it is forgiven each   *)
(* of the n times the interval is long enough for the sweep to have        *)
(* forgotten its bucket: nothing if the bucket fills up within Retention,  *)
(* and nothing in a shorter interval whatever the limits.  In particular   *)
(* no reading older than the bucket creates tokens                         *)
(* (api.go:1442-1446, 1504-1510).                                          *)
RateBounded ==
    \A k \in Keys, t \in Times : t <= clock =>
        \E n \in Times :
            /\ n * Retention <= clock - t
            /\ spent[k][t] <= Capacity + (clock - t) + MaxWait + n * Forgiven

(* A request is refused only if, in some interval up to the present,       *)
(* admitting it too would have exceeded Burst requests plus the refill of  *)
(* that interval less the delay at the mutex: no token is lost by readings *)
(* out of order or by the sweep (api.go:1442-1450).                        *)
RefusalJustified ==
    [][\A k \in Keys, now \in Readings :
        Reject(k, now) =>
            \E t \in 0 .. clock :
                spent[k][t] + Cost > Capacity + (now - t)]_vars

=============================================================================
