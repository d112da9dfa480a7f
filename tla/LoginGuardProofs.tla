-------------------------- MODULE LoginGuardProofs --------------------------
(***************************************************************************)
(* Proofs about LoginGuard, for every number of keys and attempts, every   *)
(* threshold, window, lock-out and delay: that it bounds the passwords     *)
(* tried, and that nobody is refused without the failures that deserve it. *)
(***************************************************************************)
EXTENDS LoginGuard, TLAPS

-----------------------------------------------------------------------------
(* The inductive invariant, of one key: c is the clock, e the key's entry, *)
(* n its attempts in flight, adm and fld its histories.                    *)

History == [Times -> Nat]

Typed(c, e, n, adm, fld) ==
    /\ c \in Times
    /\ e \in loginAttemptState \cup {Null}
    /\ n \in 0 .. MaxInFlight
    /\ adm \in History /\ fld \in History

\* Nothing happens after the present, and a longer interval has no fewer failures.
Ordered(c, adm, fld) ==
    /\ \A t \in Times : t > c => adm[t] = 0 /\ fld[t] = 0
    /\ \A s, t \in Times : s <= t => fld[t] <= fld[s]

\* An attempt let through has failed or is in flight.
Answered(n, adm, fld) == \A t \in Times : adm[t] <= fld[t] + n

\* An interval no longer than the counting window, the delay included.
Recent(c, t) == t <= c /\ c - t + MaxWait <= FailWindow

\* The entry knows of a failure in such an interval.
LastKnown(c, e, fld) ==
    \A t \in Times : Recent(c, t) /\ fld[t] > 0 => e # Null /\ t <= e.LastFailure + MaxWait

\* Nobody is let through from the time a lock-out is set on.
LockedOut(e, adm) ==
    e # Null /\ e.BlockedUntil # 0 =>
        \A t \in Times : t > e.BlockedUntil - BlockFor + MaxWait => adm[t] = 0

Count(e) == IF e = Null THEN 0 ELSE e.Failures

\* The attempts of a recent interval are counted or in flight, or the key is locked.
Accounted(c, e, n, adm) ==
    \A t \in Times :
        Recent(c, t) /\ c - t + MaxWait < BlockFor =>
            \/ adm[t] <= Count(e) + n
            \/ e # Null /\ e.BlockedUntil > c /\ adm[t] < MaxFails + MaxInFlight

\* The failures from tick a to tick b, and that there are m of them without a gap.
In(fld, a, b) == fld[a] - (IF b < MaxTime THEN fld[b + 1] ELSE 0)

Run(fld, m, a, b) ==
    /\ a <= b
    /\ In(fld, a, b) >= m
    /\ \A x \in a .. b - FailWindow - MaxWait : In(fld, x, x + FailWindow + MaxWait) > 0

\* The failures counted are such a run, up to the last of them.
CountedRun(c, e, fld) ==
    e # Null /\ e.Failures > 0 =>
        \E a, b \in 1 .. c :
            /\ Run(fld, e.Failures, a, b) /\ In(fld, b, b) > 0
            /\ b - MaxWait <= e.LastFailure /\ e.LastFailure <= b

\* So are those that set the lock-out.
Deserved(c, e, fld) ==
    e # Null /\ e.BlockedUntil # 0 =>
        \E a, b \in 1 .. c : Run(fld, MaxFails, a, b) /\ e.BlockedUntil <= b + BlockFor

KeyInv(c, e, n, adm, fld) ==
    /\ Typed(c, e, n, adm, fld)
    /\ Ordered(c, adm, fld)
    /\ Answered(n, adm, fld)
    /\ LastKnown(c, e, fld)
    /\ LockedOut(e, adm)
    /\ Accounted(c, e, n, adm)
    /\ CountedRun(c, e, fld)
    /\ Deserved(c, e, fld)

IInv ==
    /\ TypeOK
    /\ \A k \in Keys : KeyInv(clock, loginAttempts[k], inFlight[k], admitted[k], failed[k])

-----------------------------------------------------------------------------
(* The constants and the helpers.                                          *)

LEMMA Sizes ==
    /\ MaxFails \in Nat /\ MaxFails > 0 /\ FailWindow \in Nat /\ FailWindow > 0
    /\ BlockFor \in Nat /\ BlockFor > 0 /\ MaxWait \in Nat /\ MaxInFlight \in Nat
    /\ MaxTime \in Nat /\ MaxTime > 0
    /\ Null \notin loginAttemptState
BY GuardAssumption DEF GuardAssumption

LEMMA StateFields ==
    ASSUME NEW e \in loginAttemptState
    PROVE  /\ e # Null
           /\ e.Failures \in Nat /\ e.Failures < MaxFails
           /\ e.LastFailure \in Times /\ e.LastFailure \in Nat
           /\ e.BlockedUntil \in Nat
<1>1. e # Null
  BY Sizes
<1>2. e.Failures \in 0 .. MaxFails - 1 /\ e.LastFailure \in Times /\ e.BlockedUntil \in Nat
  BY DEF loginAttemptState
<1>3. QED
  BY <1>1, <1>2, Sizes DEF Times

LEMMA CountType ==
    ASSUME NEW e \in loginAttemptState \cup {Null}
    PROVE  Count(e) \in Nat /\ Count(e) < MaxFails
BY Sizes, StateFields DEF Count

(* A lock-out that is over is erased, and nothing else of the entry.       *)
LEMMA ReleasedFields ==
    ASSUME NEW e \in loginAttemptState, e.BlockedUntil # 0
    PROVE  /\ Released(e) \in loginAttemptState
           /\ Released(e).Failures = 0 /\ Released(e).BlockedUntil = 0
           /\ Released(e).LastFailure = e.LastFailure
<1>1. Released(e) = [e EXCEPT !.Failures = 0, !.BlockedUntil = 0]
  BY StateFields DEF Released
<1>2. 0 \in 0 .. MaxFails - 1
  BY Sizes
<1>3. [e EXCEPT !.Failures = 0, !.BlockedUntil = 0] \in loginAttemptState
  BY ONLY <1>2, e \in loginAttemptState DEF loginAttemptState
<1>4. QED
  BY <1>1, <1>3 DEF loginAttemptState

(* A failure makes an entry of the time it was read.                       *)
LEMMA FailureFields ==
    ASSUME NEW e \in loginAttemptState \cup {Null}, NEW now \in Times
    PROVE  /\ Counted(e, now) \in Nat /\ Counted(e, now) <= Count(e)
           /\ Failure(e, now) \in loginAttemptState
           /\ Failure(e, now).LastFailure = now
           /\ Counted(e, now) + 1 >= MaxFails =>
                 Failure(e, now).Failures = 0 /\ Failure(e, now).BlockedUntil = now + BlockFor
           /\ Counted(e, now) + 1 < MaxFails =>
                 /\ Failure(e, now).Failures = Counted(e, now) + 1
                 /\ Failure(e, now).BlockedUntil = IF e = Null THEN 0 ELSE e.BlockedUntil
<1>1. Counted(e, now) \in Nat /\ Counted(e, now) <= Count(e) /\ Count(e) < MaxFails
  BY CountType, StateFields, Sizes DEF Counted, Count
<1>2. now \in Nat /\ now + BlockFor \in Nat
  BY Sizes DEF Times
<1>3. (IF e = Null THEN 0 ELSE e.BlockedUntil) \in Nat
  BY StateFields
<1>4. CASE Counted(e, now) + 1 >= MaxFails
  <2>1. Failure(e, now) = [Failures |-> 0, LastFailure |-> now, BlockedUntil |-> now + BlockFor]
    BY <1>4 DEF Failure
  <2>2. QED
    BY <1>1, <1>2, <1>4, <2>1, Sizes DEF loginAttemptState
<1>5. CASE Counted(e, now) + 1 < MaxFails
  <2>1. Failure(e, now) = [Failures |-> Counted(e, now) + 1, LastFailure |-> now,
                           BlockedUntil |-> IF e = Null THEN 0 ELSE e.BlockedUntil]
    BY <1>1, <1>5, Sizes DEF Failure
  <2>2. QED
    BY <1>1, <1>3, <1>5, <2>1, Sizes DEF loginAttemptState
<1>6. QED
  BY <1>1, <1>4, <1>5, Sizes

\* A history with one more event, at c.
Bump(h, c) == [t \in Times |-> h[t] + (IF t <= c THEN 1 ELSE 0)]

LEMMA BumpType ==
    ASSUME NEW h \in History, NEW c \in Times
    PROVE  /\ Bump(h, c) \in History
           /\ \A t \in Times : Bump(h, c)[t] = IF t <= c THEN h[t] + 1 ELSE h[t]
BY DEF History, Bump, Times

Zero == [t \in Times |-> 0]

-----------------------------------------------------------------------------
(* A key that is forgotten.                                                *)

(* Nothing is known of a key without an entry, and nothing need be.        *)
LEMMA FreshKey ==
    ASSUME NEW c \in Times, NEW n \in 0 .. MaxInFlight
    PROVE  KeyInv(c, Null, n, Zero, Zero)
<1>1. Zero \in History /\ \A t \in Times : Zero[t] = 0
  BY DEF Zero, History
<1>2. n \in Nat
  BY Sizes
<1>3. Typed(c, Null, n, Zero, Zero)
  BY <1>1 DEF Typed
<1>4. Ordered(c, Zero, Zero) /\ Answered(n, Zero, Zero)
  BY <1>1, <1>2 DEF Ordered, Answered
<1>5. LastKnown(c, Null, Zero) /\ LockedOut(Null, Zero)
  BY <1>1 DEF LastKnown, LockedOut
<1>6. Accounted(c, Null, n, Zero)
  BY <1>1, <1>2 DEF Accounted, Count
<1>7. CountedRun(c, Null, Zero) /\ Deserved(c, Null, Zero)
  BY DEF CountedRun, Deserved
<1>8. QED
  BY <1>3, <1>4, <1>5, <1>6, <1>7 DEF KeyInv

(* A failure long before the reading is of no recent interval.             *)
LEMMA NoneRecent ==
    ASSUME NEW c \in Times, NEW e \in loginAttemptState, NEW fld \in History,
           LastKnown(c, e, fld),
           NEW now \in Times, now <= c, now - e.LastFailure > FailWindow,
           NEW t \in Times, Recent(c, t)
    PROVE  fld[t] = 0
<1>1. c \in Nat /\ now \in Nat /\ t \in Nat /\ fld[t] \in Nat
  BY Sizes DEF Times, History
<1>2. fld[t] > 0 => t <= e.LastFailure + MaxWait
  BY DEF LastKnown
<1>3. c - t + MaxWait <= FailWindow
  BY DEF Recent
<1>4. QED
  BY <1>1, <1>2, <1>3, StateFields, Sizes

(* A sweep forgets only entries that are in no recent interval.            *)
LEMMA SweepForgets ==
    ASSUME NEW c, NEW e, NEW n, NEW adm, NEW fld, KeyInv(c, e, n, adm, fld), e # Null,
           NEW now \in Times, now <= c, Forgotten(e, now)
    PROVE  KeyInv(c, Null, n, adm, fld)
<1>1. c \in Times /\ e \in loginAttemptState /\ fld \in History /\ adm \in History
  BY DEF KeyInv, Typed
<1>2. now - e.LastFailure > FailWindow
  <2>1. now \in Nat /\ now - e.LastFailure > 2 * FailWindow
    BY Sizes DEF Forgotten, Times
  <2>2. QED
    BY <1>1, <2>1, StateFields, Sizes
<1>3. \A t \in Times : Recent(c, t) => fld[t] = 0
  BY <1>1, <1>2, NoneRecent DEF KeyInv
<1>4. Typed(c, Null, n, adm, fld)
  BY DEF KeyInv, Typed
<1>5. LastKnown(c, Null, fld) /\ LockedOut(Null, adm)
  BY <1>3 DEF LastKnown, LockedOut
<1>6. Accounted(c, Null, n, adm)
  <2>1. \A t \in Times : Recent(c, t) => adm[t] <= 0 + n
    <3>1. n \in Nat
      BY Sizes DEF KeyInv, Typed
    <3>2. \A t \in Times : adm[t] \in Nat /\ adm[t] <= fld[t] + n
      BY <1>1 DEF KeyInv, Answered, History
    <3>3. QED
      BY <1>3, <3>1, <3>2
  <2>2. QED
    BY <2>1 DEF Accounted, Count
<1>7. CountedRun(c, Null, fld) /\ Deserved(c, Null, fld)
  BY DEF CountedRun, Deserved
<1>8. QED
  BY <1>4, <1>5, <1>6, <1>7 DEF KeyInv

-----------------------------------------------------------------------------
(* An attempt is let through.                                              *)

LEMMA AdmitKeeps ==
    ASSUME NEW c, NEW e, NEW n, NEW adm, NEW fld, KeyInv(c, e, n, adm, fld), n < MaxInFlight,
           NEW now \in Times, now <= c, ~Blocked(e, now)
    PROVE  KeyInv(c, Released(e), n + 1, Bump(adm, c), fld)
<1> DEFINE f == Released(e)
<1>1. /\ c \in Times /\ c \in Nat /\ n \in Nat /\ now \in Nat
      /\ e \in loginAttemptState \cup {Null} /\ adm \in History /\ fld \in History
  BY Sizes DEF KeyInv, Typed, Times
<1>2. /\ \A t \in Times : adm[t] \in Nat /\ fld[t] \in Nat /\ t \in Nat
      /\ \A t \in Times : Bump(adm, c)[t] = IF t <= c THEN adm[t] + 1 ELSE adm[t]
      /\ Bump(adm, c) \in History
  <2>1. \A t \in Times : adm[t] \in Nat /\ fld[t] \in Nat /\ t \in Nat
    BY <1>1 DEF History, Times
  <2>2. QED
    BY <1>1, <2>1, BumpType
<1>3. /\ f \in loginAttemptState \cup {Null}
      /\ f = Null <=> e = Null
      /\ e # Null => f.BlockedUntil = 0 /\ f.LastFailure = e.LastFailure
      /\ e # Null /\ e.BlockedUntil # 0 => f.Failures = 0
      /\ e = Null \/ e.BlockedUntil = 0 => f = e
  BY <1>1, ReleasedFields, StateFields DEF Released
<1>4. Typed(c, f, n + 1, Bump(adm, c), fld)
  BY <1>1, <1>2, <1>3, Sizes DEF Typed
<1>5. Ordered(c, Bump(adm, c), fld)
  BY <1>1, <1>2 DEF KeyInv, Ordered
<1>6. Answered(n + 1, Bump(adm, c), fld)
  BY <1>1, <1>2 DEF KeyInv, Answered
<1>7. LastKnown(c, f, fld)
  BY <1>3 DEF KeyInv, LastKnown
<1>8. LockedOut(f, Bump(adm, c))
  BY <1>3 DEF LockedOut
<1>9. Accounted(c, f, n + 1, Bump(adm, c))
  <2>1. ASSUME NEW t \in Times, Recent(c, t), c - t + MaxWait < BlockFor
        PROVE  Bump(adm, c)[t] <= Count(f) + (n + 1)
    <3>1. Bump(adm, c)[t] = adm[t] + 1 /\ t \in Nat /\ adm[t] \in Nat
      BY <1>2, <2>1 DEF Recent
    <3>2. Count(f) \in Nat
      BY <1>3, CountType
    <3>3. CASE e = Null \/ e.BlockedUntil = 0
      <4>1. f = e /\ adm[t] <= Count(e) + n
        BY <1>1, <1>3, <2>1, <3>3 DEF KeyInv, Accounted
      <4>2. QED
        BY <1>1, <3>1, <3>2, <4>1
    <3>4. CASE e # Null /\ e.BlockedUntil # 0
      <4>1. e.BlockedUntil \in Nat /\ e.BlockedUntil <= now
        BY <1>1, <3>4, StateFields DEF Blocked
      <4>2. t > e.BlockedUntil - BlockFor + MaxWait
        BY <1>1, <2>1, <3>1, <4>1, Sizes
      <4>3. adm[t] = 0
        BY <3>4, <4>2 DEF KeyInv, LockedOut
      <4>4. QED
        BY <1>1, <3>1, <3>2, <4>3
    <3>5. QED
      BY <3>3, <3>4
  <2>2. QED
    BY <2>1 DEF Accounted
<1>10. CountedRun(c, f, fld)
  <2>1. ASSUME f # Null, f.Failures > 0
        PROVE  f = e
    BY <1>3, <2>1
  <2>2. QED
    BY <2>1 DEF KeyInv, CountedRun
<1>11. Deserved(c, f, fld)
  BY <1>3 DEF Deserved
<1>12. QED
  BY <1>4, <1>5, <1>6, <1>7, <1>8, <1>9, <1>10, <1>11 DEF KeyInv

-----------------------------------------------------------------------------
(* A failure is recorded.                                                  *)

LEMMA InType ==
    ASSUME NEW h \in History, NEW a \in Times, NEW b \in Times
    PROVE  In(h, a, b) \in Int
<1>1. b \in Nat /\ h[a] \in Nat /\ (b < MaxTime => b + 1 \in Times)
  BY Sizes DEF Times, History
<1>2. b < MaxTime => h[b + 1] \in Nat
  BY <1>1 DEF History
<1>3. QED
  BY <1>1, <1>2 DEF In

(* A failure more, at the present, takes none from any interval.           *)
LEMMA InGrows ==
    ASSUME NEW h \in History, NEW c \in Times, NEW a \in 1 .. c, NEW b \in 1 .. c
    PROVE  In(Bump(h, c), a, b) >= In(h, a, b)
<1>1. /\ a \in Times /\ b \in Times /\ a \in Nat /\ b \in Nat /\ c \in Nat
      /\ a <= c /\ b <= c /\ h[a] \in Nat
  BY Sizes DEF Times, History
<1>2. Bump(h, c)[a] = h[a] + 1
  BY <1>1, BumpType
<1>3. CASE b < MaxTime
  <2>1. b + 1 \in Times
    BY <1>1, <1>3, Sizes DEF Times
  <2>2. h[b + 1] \in Nat /\ Bump(h, c)[b + 1] <= h[b + 1] + 1 /\ Bump(h, c)[b + 1] \in Nat
    <3>1. h[b + 1] \in Nat
      BY <2>1 DEF History
    <3>2. Bump(h, c)[b + 1] = IF b + 1 <= c THEN h[b + 1] + 1 ELSE h[b + 1]
      BY <2>1, BumpType
    <3>3. QED
      BY <3>1, <3>2
  <2>3. QED
    BY <1>1, <1>2, <1>3, <2>2 DEF In
<1>4. CASE ~(b < MaxTime)
  BY <1>1, <1>2, <1>4 DEF In
<1>5. QED
  BY <1>3, <1>4

(* An interval that ends with the present includes the failure.            *)
LEMMA InNow ==
    ASSUME NEW h \in History, NEW c \in Times, NEW a \in 1 .. c,
           \A t \in Times : t > c => h[t] = 0
    PROVE  In(Bump(h, c), a, c) = h[a] + 1
<1>1. a \in Times /\ a \in Nat /\ c \in Nat /\ a <= c /\ h[a] \in Nat
  BY Sizes DEF Times, History
<1>2. Bump(h, c)[a] = h[a] + 1
  BY <1>1, BumpType
<1>3. CASE c < MaxTime
  <2>1. c + 1 \in Times /\ c + 1 > c
    BY <1>1, <1>3, Sizes DEF Times
  <2>2. Bump(h, c)[c + 1] = 0
    BY <1>1, <2>1, BumpType
  <2>3. QED
    BY <1>1, <1>2, <1>3, <2>2 DEF In
<1>4. CASE ~(c < MaxTime)
  BY <1>1, <1>2, <1>4 DEF In
<1>5. QED
  BY <1>3, <1>4

(* An interval around another has no fewer failures.                       *)
LEMMA InWider ==
    ASSUME NEW h \in History, \A s, t \in Times : s <= t => h[t] <= h[s],
           NEW a \in Times, NEW x \in Times, NEW b \in Times, NEW y \in Times,
           x <= a, b <= y
    PROVE  In(h, x, y) >= In(h, a, b)
<1>1. /\ a \in Nat /\ b \in Nat /\ x \in Nat /\ y \in Nat /\ y <= MaxTime
      /\ h[a] \in Nat /\ h[x] \in Nat /\ h[a] <= h[x]
  BY Sizes DEF Times, History
<1>2. b < MaxTime => h[b + 1] \in Nat
  BY <1>1, Sizes DEF Times, History
<1>3. CASE y < MaxTime
  <2>1. y + 1 \in Times /\ b + 1 \in Times /\ b + 1 <= y + 1 /\ b < MaxTime
    BY <1>1, <1>3, Sizes DEF Times
  <2>2. h[y + 1] <= h[b + 1] /\ h[y + 1] \in Nat
    BY <2>1 DEF History
  <2>3. QED
    BY <1>1, <1>2, <1>3, <2>1, <2>2 DEF In
<1>4. CASE ~(y < MaxTime)
  BY <1>1, <1>2, <1>4 DEF In
<1>5. QED
  BY <1>3, <1>4

LEMMA RunGrows ==
    ASSUME NEW h \in History, NEW c \in Times, NEW m \in Nat,
           NEW a \in 1 .. c, NEW b \in 1 .. c, Run(h, m, a, b)
    PROVE  Run(Bump(h, c), m, a, b)
<1>1. /\ a \in Times /\ b \in Times /\ a \in Nat /\ b \in Nat /\ c \in Nat /\ b <= c
      /\ a >= 1 /\ Bump(h, c) \in History
  BY Sizes, BumpType DEF Times
<1>2. In(Bump(h, c), a, b) >= m
  BY <1>1, InGrows, InType DEF Run
<1>3. ASSUME NEW x \in a .. b - FailWindow - MaxWait
      PROVE  In(Bump(h, c), x, x + FailWindow + MaxWait) > 0
  <2>1. x \in 1 .. c /\ x + FailWindow + MaxWait \in 1 .. c
    BY <1>1, Sizes
  <2>2. x \in Times /\ x + FailWindow + MaxWait \in Times
    BY <1>1, <2>1, Sizes DEF Times
  <2>3. In(h, x, x + FailWindow + MaxWait) > 0
    BY DEF Run
  <2>4. QED
    BY <1>1, <2>1, <2>2, <2>3, InGrows, InType
<1>4. QED
  BY <1>2, <1>3 DEF Run

(* The failures counted, with the one recorded now, are a run.             *)
LEMMA RunExtended ==
    ASSUME NEW c, NEW e, NEW n, NEW adm, NEW fld, KeyInv(c, e, n, adm, fld),
           NEW now \in Times, now <= c, c <= now + MaxWait
    PROVE  \E a \in 1 .. c : Run(Bump(fld, c), Counted(e, now) + 1, a, c)
<1>1. /\ c \in Times /\ c \in Nat /\ c >= 1 /\ c <= MaxTime /\ now \in Nat
      /\ e \in loginAttemptState \cup {Null} /\ fld \in History
  BY Sizes DEF KeyInv, Typed, Times
<1>2. /\ \A t \in Times : t > c => fld[t] = 0
      /\ \A s, t \in Times : s <= t => fld[t] <= fld[s]
  BY DEF KeyInv, Ordered
<1>3. Counted(e, now) \in Nat
  BY <1>1, FailureFields
<1>4. CASE Counted(e, now) = 0
  <2>1. In(Bump(fld, c), c, c) = fld[c] + 1 /\ fld[c] \in Nat
    BY <1>1, <1>2, InNow DEF History
  <2>2. c .. c - FailWindow - MaxWait = {}
    BY <1>1, Sizes
  <2>3. Run(Bump(fld, c), Counted(e, now) + 1, c, c)
    BY <1>1, <1>4, <2>1, <2>2 DEF Run
  <2>4. QED
    BY <1>1, <2>3
<1>5. CASE Counted(e, now) # 0
  <2>1. e # Null /\ e \in loginAttemptState /\ Counted(e, now) = e.Failures
        /\ now - e.LastFailure <= FailWindow
    BY <1>1, <1>5, StateFields, Sizes DEF Counted
  <2>2. e.Failures > 0
    BY <1>3, <1>5, <2>1
  <2>3. PICK a \in 1 .. c, b \in 1 .. c :
           /\ Run(fld, e.Failures, a, b) /\ In(fld, b, b) > 0
           /\ b - MaxWait <= e.LastFailure /\ e.LastFailure <= b
    BY <2>1, <2>2 DEF KeyInv, CountedRun
  <2>4. /\ a \in Times /\ b \in Times /\ a \in Nat /\ b \in Nat /\ a <= b /\ b <= c /\ a >= 1
        /\ fld[a] \in Nat /\ fld[b] \in Nat
    BY <1>1, <2>3, Sizes DEF Times, Run, History
  <2>5. In(Bump(fld, c), a, c) >= Counted(e, now) + 1
    <3>1. In(Bump(fld, c), a, c) = fld[a] + 1
      BY <1>1, <1>2, InNow
    <3>2. In(fld, a, b) >= e.Failures /\ In(fld, a, b) <= fld[a]
      <4>1. b < MaxTime => fld[b + 1] \in Nat
        BY <1>1, <2>4, Sizes DEF Times, History
      <4>2. QED
        BY <2>3, <2>4, <4>1 DEF Run, In
    <3>3. In(fld, a, b) \in Int
      BY <1>1, <2>4, InType
    <3>4. QED
      BY <1>3, <2>1, <2>4, <3>1, <3>2, <3>3
  <2>6. ASSUME NEW x \in a .. c - FailWindow - MaxWait
        PROVE  In(Bump(fld, c), x, x + FailWindow + MaxWait) > 0
    <3> DEFINE y == x + FailWindow + MaxWait
    <3>1. x \in Nat /\ y \in Nat /\ x \in 1 .. c /\ y \in 1 .. c /\ y <= c
          /\ x \in Times /\ y \in Times
      BY <1>1, <2>4, Sizes DEF Times
    <3>2. In(Bump(fld, c), x, y) >= In(fld, x, y) /\ In(fld, x, y) \in Int
          /\ In(Bump(fld, c), x, y) \in Int
      BY <1>1, <3>1, InGrows, InType, BumpType
    <3>3. CASE y <= b
      <4>1. x \in a .. b - FailWindow - MaxWait
        BY <2>4, <3>1, <3>3, Sizes
      <4>2. In(fld, x, y) > 0
        BY <2>3, <4>1 DEF Run
      <4>3. QED
        BY <3>2, <4>2
    <3>4. CASE y > b /\ y < c
      <4>1. x <= b
        BY <1>1, <2>1, <2>3, <2>4, <3>1, <3>4, StateFields, Sizes
      <4>2. In(fld, x, y) >= In(fld, b, b)
        BY <1>1, <1>2, <2>4, <3>1, <3>4, <4>1, InWider
      <4>3. In(fld, b, b) \in Int
        BY <1>1, <2>4, InType
      <4>4. QED
        BY <2>3, <3>2, <4>2, <4>3
    <3>5. CASE y = c
      <4>1. In(Bump(fld, c), x, c) = fld[x] + 1 /\ fld[x] \in Nat
        BY <1>1, <1>2, <3>1, InNow DEF History
      <4>2. QED
        BY <3>5, <4>1
    <3>6. QED
      BY <1>1, <2>4, <3>1, <3>3, <3>4, <3>5
  <2>7. Run(Bump(fld, c), Counted(e, now) + 1, a, c)
    BY <2>4, <2>5, <2>6 DEF Run
  <2>8. QED
    BY <2>7
<1>6. QED
  BY <1>4, <1>5

LEMMA FailKeeps ==
    ASSUME NEW c, NEW e, NEW n, NEW adm, NEW fld, KeyInv(c, e, n, adm, fld), n > 0,
           NEW now \in Times, now <= c, c <= now + MaxWait
    PROVE  KeyInv(c, Failure(e, now), n - 1, adm, Bump(fld, c))
<1> DEFINE f == Failure(e, now)
           m == Counted(e, now)
           g == Bump(fld, c)
<1>1. /\ c \in Times /\ c \in Nat /\ c >= 1 /\ n \in Nat /\ n <= MaxInFlight /\ now \in Nat
      /\ e \in loginAttemptState \cup {Null} /\ adm \in History /\ fld \in History
  BY Sizes DEF KeyInv, Typed, Times
<1>2. \A t \in Times : adm[t] \in Nat /\ fld[t] \in Nat /\ t \in Nat
  BY <1>1 DEF History, Times
<1>3. g \in History /\ \A t \in Times : g[t] = IF t <= c THEN fld[t] + 1 ELSE fld[t]
  BY <1>1, BumpType
<1>4. /\ m \in Nat /\ m <= Count(e)
      /\ f \in loginAttemptState /\ f # Null /\ f.LastFailure = now
      /\ f.Failures \in Nat /\ f.BlockedUntil \in Nat
  BY <1>1, FailureFields, StateFields
<1>5. /\ m + 1 >= MaxFails => f.Failures = 0 /\ f.BlockedUntil = now + BlockFor
      /\ m + 1 < MaxFails => /\ f.Failures = m + 1
                             /\ f.BlockedUntil = IF e = Null THEN 0 ELSE e.BlockedUntil
  BY <1>1, FailureFields
<1> HIDE DEF f, m, g
<1>6. Typed(c, f, n - 1, adm, g)
  BY <1>1, <1>3, <1>4, Sizes DEF Typed
<1>7. Ordered(c, adm, g)
  BY <1>1, <1>2, <1>3 DEF KeyInv, Ordered
<1>8. Answered(n - 1, adm, g)
  <2>1. \A t \in Times : adm[t] <= fld[t] + n /\ (t > c => adm[t] = 0)
    BY DEF KeyInv, Answered, Ordered
  <2>2. QED
    BY <1>1, <1>2, <1>3, <2>1 DEF Answered
<1>9. LastKnown(c, f, g)
  BY <1>1, <1>2, <1>4, Sizes DEF LastKnown, Recent
<1>10. LockedOut(f, adm)
  <2>1. CASE m + 1 >= MaxFails
    <3>1. \A t \in Times : t > now + MaxWait => adm[t] = 0
      BY <1>1, <1>2, Sizes DEF KeyInv, Ordered
    <3>2. f.BlockedUntil - BlockFor + MaxWait = now + MaxWait
      BY <1>1, <1>5, <2>1, Sizes
    <3>3. QED
      BY <3>1, <3>2 DEF LockedOut
  <2>2. CASE m + 1 < MaxFails
    BY <1>5, <2>2 DEF KeyInv, LockedOut
  <2>3. QED
    BY <1>4, <2>1, <2>2, Sizes
<1>11. Accounted(c, f, n - 1, adm)
  <2>1. ASSUME NEW t \in Times, Recent(c, t), c - t + MaxWait < BlockFor
        PROVE  \/ adm[t] <= Count(f) + (n - 1)
               \/ f # Null /\ f.BlockedUntil > c /\ adm[t] < MaxFails + MaxInFlight
    <3>1. /\ t \in Nat /\ t <= c /\ adm[t] \in Nat /\ fld[t] \in Nat /\ adm[t] <= fld[t] + n
          /\ Count(e) \in Nat /\ Count(e) < MaxFails
      BY <1>1, <1>2, <2>1, CountType DEF KeyInv, Answered, Recent
    <3>2. \/ adm[t] <= Count(e) + n
          \/ e # Null /\ e.BlockedUntil > c /\ adm[t] < MaxFails + MaxInFlight
      BY <2>1 DEF KeyInv, Accounted
    <3>3. CASE m + 1 >= MaxFails
      <4>1. f.BlockedUntil > c
        BY <1>1, <1>5, <2>1, <3>1, <3>3, Sizes
      <4>2. adm[t] < MaxFails + MaxInFlight
        BY <1>1, <3>1, <3>2, Sizes
      <4>3. QED
        BY <1>4, <4>1, <4>2
    <3>4. CASE m + 1 < MaxFails
      <4>1. Count(f) = m + 1
        BY <1>4, <1>5, <3>4 DEF Count
      <4>2. CASE adm[t] <= Count(e) + n /\ m = Count(e)
        BY <1>1, <3>1, <4>1, <4>2
      <4>3. CASE m # Count(e)
        <5>1. e \in loginAttemptState /\ now - e.LastFailure > FailWindow
          BY <1>1, <4>3 DEF m, Counted, Count
        <5>2. fld[t] = 0
          BY <1>1, <2>1, <5>1, NoneRecent DEF KeyInv
        <5>3. adm[t] <= n
          BY <1>1, <3>1, <5>2
        <5>4. QED
          BY <1>1, <1>4, <3>1, <4>1, <5>3
      <4>4. CASE e # Null /\ e.BlockedUntil > c /\ adm[t] < MaxFails + MaxInFlight
        BY <1>4, <1>5, <3>4, <4>4
      <4>5. QED
        BY <3>2, <4>2, <4>3, <4>4
    <3>5. QED
      BY <1>4, <3>3, <3>4, Sizes
  <2>2. QED
    BY <2>1 DEF Accounted
<1>12. \E a \in 1 .. c : Run(g, m + 1, a, c)
  BY RunExtended DEF m, g
<1>13. CountedRun(c, f, g)
  <2>1. ASSUME f.Failures > 0
        PROVE  f.Failures = m + 1
    BY <1>4, <1>5, <2>1, Sizes
  <2>2. In(g, c, c) > 0
    <3>1. In(g, c, c) = fld[c] + 1
      <4>1. \A t \in Times : t > c => fld[t] = 0
        BY DEF KeyInv, Ordered
      <4>2. c \in 1 .. c
        BY <1>1
      <4>3. QED
        BY <1>1, <4>1, <4>2, InNow DEF g
    <3>2. QED
      BY <1>1, <1>2, <3>1
  <2>3. c \in 1 .. c /\ c - MaxWait <= f.LastFailure /\ f.LastFailure <= c
    BY <1>1, <1>4, Sizes
  <2>4. QED
    BY <1>12, <2>1, <2>2, <2>3 DEF CountedRun
<1>14. Deserved(c, f, g)
  <2>1. CASE m + 1 >= MaxFails
    <3>1. PICK a \in 1 .. c : Run(g, m + 1, a, c)
      BY <1>12
    <3>2. Run(g, MaxFails, a, c)
      <4>1. a \in Times
        BY <1>1, Sizes DEF Times
      <4>2. In(g, a, c) \in Int
        BY <1>1, <1>3, <4>1, InType
      <4>3. QED
        BY <1>4, <2>1, <3>1, <4>2, Sizes DEF Run
    <3>3. f.BlockedUntil <= c + BlockFor /\ c \in 1 .. c
      BY <1>1, <1>5, <2>1, Sizes
    <3>4. QED
      BY <3>2, <3>3 DEF Deserved
  <2>2. CASE m + 1 < MaxFails
    <3>1. SUFFICES ASSUME f # Null, f.BlockedUntil # 0
                   PROVE  \E a, b \in 1 .. c :
                             Run(g, MaxFails, a, b) /\ f.BlockedUntil <= b + BlockFor
      BY DEF Deserved
    <3>2. e # Null /\ e.BlockedUntil = f.BlockedUntil /\ e.BlockedUntil # 0
      BY <1>5, <2>2, <3>1
    <3>3. PICK a \in 1 .. c, b \in 1 .. c :
             Run(fld, MaxFails, a, b) /\ e.BlockedUntil <= b + BlockFor
      BY <3>2 DEF KeyInv, Deserved
    <3>4. Run(g, MaxFails, a, b)
      BY <1>1, <3>3, RunGrows, Sizes DEF g
    <3>5. QED
      BY <3>2, <3>3, <3>4
  <2>3. QED
    BY <1>4, <2>1, <2>2, Sizes
<1>15. KeyInv(c, f, n - 1, adm, g)
  BY <1>6, <1>7, <1>8, <1>9, <1>10, <1>11, <1>13, <1>14 DEF KeyInv
<1>16. QED
  BY <1>15 DEF f, g

-----------------------------------------------------------------------------
(* Time passes.  A lock-out that ends has let nobody through all the while. *)

LEMMA TickKeeps ==
    ASSUME NEW c, NEW e, NEW n, NEW adm, NEW fld, KeyInv(c, e, n, adm, fld), c < MaxTime
    PROVE  KeyInv(c + 1, e, n, adm, fld)
<1>1. /\ c \in Times /\ c \in Nat /\ c + 1 \in Times /\ n \in Nat
      /\ e \in loginAttemptState \cup {Null} /\ adm \in History /\ fld \in History
  BY Sizes DEF KeyInv, Typed, Times
<1>2. \A t \in Times : adm[t] \in Nat /\ fld[t] \in Nat /\ t \in Nat
  BY <1>1 DEF History, Times
<1>3. \A t \in Times : Recent(c + 1, t) => Recent(c, t) \/ (t > c /\ adm[t] = 0 /\ fld[t] = 0)
  BY <1>1, <1>2, Sizes DEF KeyInv, Ordered, Recent
<1>4. Typed(c + 1, e, n, adm, fld) /\ Answered(n, adm, fld) /\ LockedOut(e, adm)
  BY <1>1 DEF KeyInv, Typed
<1>5. Ordered(c + 1, adm, fld)
  BY <1>1, <1>2 DEF KeyInv, Ordered
<1>6. LastKnown(c + 1, e, fld)
  BY <1>2, <1>3 DEF KeyInv, LastKnown
<1>7. Accounted(c + 1, e, n, adm)
  <2>1. ASSUME NEW t \in Times, Recent(c + 1, t), (c + 1) - t + MaxWait < BlockFor
        PROVE  \/ adm[t] <= Count(e) + n
               \/ e # Null /\ e.BlockedUntil > c + 1 /\ adm[t] < MaxFails + MaxInFlight
    <3>1. t \in Nat /\ adm[t] \in Nat /\ Count(e) \in Nat /\ c - t + MaxWait < BlockFor
      BY <1>1, <1>2, <2>1, CountType, Sizes
    <3>2. CASE adm[t] = 0
      BY <1>1, <3>1, <3>2
    <3>3. CASE Recent(c, t) /\ adm[t] # 0
      <4>1. \/ adm[t] <= Count(e) + n
            \/ e # Null /\ e.BlockedUntil > c /\ adm[t] < MaxFails + MaxInFlight
        BY <3>1, <3>3 DEF KeyInv, Accounted
      <4>2. ASSUME e # Null, e.BlockedUntil > c, e.BlockedUntil <= c + 1
            PROVE  FALSE
        <5>1. e.BlockedUntil = c + 1 /\ e.BlockedUntil # 0
          BY <1>1, <4>2, StateFields
        <5>2. t > e.BlockedUntil - BlockFor + MaxWait
          BY <1>1, <2>1, <3>1, <5>1, Sizes
        <5>3. adm[t] = 0
          BY <4>2, <5>1, <5>2 DEF KeyInv, LockedOut
        <5>4. QED
          BY <3>3, <5>3
      <4>3. e # Null => e.BlockedUntil \in Nat
        BY <1>1, StateFields
      <4>4. QED
        BY <1>1, <4>1, <4>2, <4>3
    <3>4. QED
      BY <1>3, <2>1, <3>2, <3>3
  <2>2. QED
    BY <2>1 DEF Accounted
<1>8. CountedRun(c + 1, e, fld) /\ Deserved(c + 1, e, fld)
  <2>1. \A a \in 1 .. c : a \in 1 .. (c + 1)
    BY <1>1
  <2>2. QED
    BY <2>1 DEF KeyInv, CountedRun, Deserved
<1>9. QED
  BY <1>4, <1>5, <1>6, <1>7, <1>8 DEF KeyInv

-----------------------------------------------------------------------------
(* The steps.                                                              *)

LEMMA InitInv == Init => IInv
<1> SUFFICES ASSUME Init PROVE IInv
  OBVIOUS
<1>1. 1 \in Times /\ 0 \in 0 .. MaxInFlight
  BY Sizes DEF Times
<1>2. Zero \in [Times -> Nat]
  BY DEF Zero
<1>3. TypeOK
  BY <1>1, <1>2 DEF Init, TypeOK, Nothing, Zero
<1>4. ASSUME NEW k \in Keys
      PROVE  KeyInv(clock, loginAttempts[k], inFlight[k], admitted[k], failed[k])
  <2>1. /\ clock = 1 /\ loginAttempts[k] = Null /\ inFlight[k] = 0
        /\ admitted[k] = Zero /\ failed[k] = Zero
    BY DEF Init, Nothing, Zero
  <2>2. QED
    BY <1>1, <2>1, FreshKey
<1>5. QED
  BY <1>3, <1>4 DEF IInv

LEMMA ReadingType ==
    ASSUME IInv, NEW now \in Readings
    PROVE  /\ now \in Times /\ now \in Nat /\ clock \in Times /\ clock \in Nat
           /\ now <= clock /\ clock <= now + MaxWait
BY Sizes DEF IInv, TypeOK, Readings, Times

(* Every critical section starts with the sweep, which keeps every key.    *)
LEMMA SweepKeeps ==
    ASSUME IInv, NEW now \in Readings
    PROVE  /\ SweptAttempts(now) \in [Keys -> loginAttemptState \cup {Null}]
           /\ Swept(now) => lastSweep' \in Times \cup {Null}
           /\ \A k \in Keys : KeyInv(clock, SweptAttempts(now)[k], inFlight[k],
                                     admitted[k], failed[k])
<1>1. loginAttempts \in [Keys -> loginAttemptState \cup {Null}]
  BY DEF IInv, TypeOK
<1>2. SweptAttempts(now) \in [Keys -> loginAttemptState \cup {Null}]
  BY <1>1 DEF SweptAttempts
<1>3. ASSUME Swept(now)
      PROVE  lastSweep' \in Times \cup {Null}
  BY <1>3, ReadingType DEF IInv, TypeOK, Swept
<1>4. ASSUME NEW k \in Keys
      PROVE  KeyInv(clock, SweptAttempts(now)[k], inFlight[k], admitted[k], failed[k])
  <2>1. KeyInv(clock, loginAttempts[k], inFlight[k], admitted[k], failed[k])
    BY DEF IInv
  <2>2. CASE loginAttempts[k] # Null /\ SweepDue(now) /\ Forgotten(loginAttempts[k], now)
    <3>1. SweptAttempts(now)[k] = Null
      BY <2>2 DEF SweptAttempts
    <3>2. QED
      BY <2>1, <2>2, <3>1, ReadingType, SweepForgets
  <2>3. CASE ~(loginAttempts[k] # Null /\ SweepDue(now) /\ Forgotten(loginAttempts[k], now))
    <3>1. SweptAttempts(now)[k] = loginAttempts[k]
      BY <2>3 DEF SweptAttempts
    <3>2. QED
      BY <2>1, <3>1
  <2>4. QED
    BY <2>2, <2>3
<1>5. QED
  BY <1>2, <1>3, <1>4

LEMMA LetThroughKeeps ==
    ASSUME IInv, NEW k \in Keys, NEW now \in Readings, LetThrough(k, now)
    PROVE  IInv'
<1> DEFINE e == SweptAttempts(now)[k]
<1>1. /\ clock \in Times /\ inFlight \in [Keys -> 0 .. MaxInFlight]
      /\ admitted \in [Keys -> History] /\ failed \in [Keys -> History]
  BY DEF IInv, TypeOK, History
<1>2. KeyInv(clock, Released(e), inFlight[k] + 1, Bump(admitted[k], clock), failed[k])
  <2>1. KeyInv(clock, e, inFlight[k], admitted[k], failed[k])
    BY SweepKeeps
  <2>2. inFlight[k] < MaxInFlight /\ ~Blocked(e, now)
    BY DEF LetThrough
  <2>3. QED
    BY <2>1, <2>2, ReadingType, AdmitKeeps
<1>3. /\ loginAttempts' = [SweptAttempts(now) EXCEPT ![k] = Released(e)]
      /\ inFlight' = [inFlight EXCEPT ![k] = inFlight[k] + 1]
      /\ admitted' = [admitted EXCEPT ![k] = Bump(admitted[k], clock)]
      /\ clock' = clock /\ failed' = failed /\ Swept(now)
  BY DEF LetThrough, Noted, Bump
<1>4. /\ Released(e) \in loginAttemptState \cup {Null} /\ inFlight[k] + 1 \in 0 .. MaxInFlight
      /\ Bump(admitted[k], clock) \in History
  BY <1>2 DEF KeyInv, Typed
<1> HIDE DEF e
<1>5. SweptAttempts(now) \in [Keys -> loginAttemptState \cup {Null}]
  BY SweepKeeps
<1>6. TypeOK'
  BY <1>1, <1>3, <1>4, <1>5, SweepKeeps DEF TypeOK, History
<1>7. ASSUME NEW j \in Keys
      PROVE  KeyInv(clock, loginAttempts[j], inFlight[j], admitted[j], failed[j])'
  <2>1. CASE j = k
    BY <1>1, <1>2, <1>3, <1>5, <2>1
  <2>2. CASE j # k
    <3>1. /\ loginAttempts'[j] = SweptAttempts(now)[j]
          /\ inFlight'[j] = inFlight[j] /\ admitted'[j] = admitted[j]
      BY <1>1, <1>3, <1>5, <2>2
    <3>2. QED
      BY <1>3, <3>1, SweepKeeps
  <2>3. QED
    BY <2>1, <2>2
<1>8. QED
  BY <1>6, <1>7 DEF IInv

LEMMA RecordFailureKeeps ==
    ASSUME IInv, NEW k \in Keys, NEW now \in Readings, RecordFailure(k, now)
    PROVE  IInv'
<1> DEFINE e == SweptAttempts(now)[k]
<1>1. /\ clock \in Times /\ inFlight \in [Keys -> 0 .. MaxInFlight]
      /\ admitted \in [Keys -> History] /\ failed \in [Keys -> History]
  BY DEF IInv, TypeOK, History
<1>2. KeyInv(clock, Failure(e, now), inFlight[k] - 1, admitted[k], Bump(failed[k], clock))
  <2>1. KeyInv(clock, e, inFlight[k], admitted[k], failed[k])
    BY SweepKeeps
  <2>2. inFlight[k] > 0
    BY DEF RecordFailure
  <2>3. QED
    BY <2>1, <2>2, ReadingType, FailKeeps
<1>3. /\ loginAttempts' = [SweptAttempts(now) EXCEPT ![k] = Failure(e, now)]
      /\ inFlight' = [inFlight EXCEPT ![k] = inFlight[k] - 1]
      /\ failed' = [failed EXCEPT ![k] = Bump(failed[k], clock)]
      /\ clock' = clock /\ admitted' = admitted /\ Swept(now)
  BY DEF RecordFailure, Noted, Bump
<1>4. /\ Failure(e, now) \in loginAttemptState \cup {Null}
      /\ inFlight[k] - 1 \in 0 .. MaxInFlight /\ Bump(failed[k], clock) \in History
  BY <1>2 DEF KeyInv, Typed
<1> HIDE DEF e
<1>5. SweptAttempts(now) \in [Keys -> loginAttemptState \cup {Null}]
  BY SweepKeeps
<1>6. TypeOK'
  BY <1>1, <1>3, <1>4, <1>5, SweepKeeps DEF TypeOK, History
<1>7. ASSUME NEW j \in Keys
      PROVE  KeyInv(clock, loginAttempts[j], inFlight[j], admitted[j], failed[j])'
  <2>1. CASE j = k
    BY <1>1, <1>2, <1>3, <1>5, <2>1
  <2>2. CASE j # k
    <3>1. /\ loginAttempts'[j] = SweptAttempts(now)[j]
          /\ inFlight'[j] = inFlight[j] /\ failed'[j] = failed[j]
      BY <1>1, <1>3, <1>5, <2>2
    <3>2. QED
      BY <1>3, <3>1, SweepKeeps
  <2>3. QED
    BY <2>1, <2>2
<1>8. QED
  BY <1>6, <1>7 DEF IInv

(* A refusal and the limiter do no more than sweep.                        *)
LEMMA OnlySweepKeeps ==
    ASSUME IInv, NEW now \in Readings, LimiterSweep(now)
    PROVE  IInv'
<1>1. TypeOK'
  BY SweepKeeps DEF LimiterSweep, IInv, TypeOK
<1>2. ASSUME NEW k \in Keys
      PROVE  KeyInv(clock, loginAttempts[k], inFlight[k], admitted[k], failed[k])'
  BY SweepKeeps DEF LimiterSweep
<1>3. QED
  BY <1>1, <1>2 DEF IInv

LEMMA SucceedKeeps ==
    ASSUME IInv, NEW k \in Keys, Succeed(k)
    PROVE  IInv'
<1>1. /\ clock \in Times /\ inFlight \in [Keys -> 0 .. MaxInFlight]
      /\ loginAttempts \in [Keys -> loginAttemptState \cup {Null}]
      /\ admitted \in [Keys -> History] /\ failed \in [Keys -> History]
      /\ Zero \in History
  BY DEF IInv, TypeOK, History, Zero
<1>2. inFlight[k] - 1 \in 0 .. MaxInFlight
  BY <1>1, Sizes DEF Succeed
<1>3. /\ loginAttempts' = [loginAttempts EXCEPT ![k] = Null]
      /\ inFlight' = [inFlight EXCEPT ![k] = inFlight[k] - 1]
      /\ admitted' = [admitted EXCEPT ![k] = Zero] /\ failed' = [failed EXCEPT ![k] = Zero]
      /\ clock' = clock /\ lastSweep' = lastSweep
  BY DEF Succeed, Nothing, Zero
<1>4. TypeOK'
  BY <1>1, <1>2, <1>3 DEF IInv, TypeOK, History
<1>5. ASSUME NEW j \in Keys
      PROVE  KeyInv(clock, loginAttempts[j], inFlight[j], admitted[j], failed[j])'
  <2>1. CASE j = k
    <3>1. KeyInv(clock, Null, inFlight[k] - 1, Zero, Zero)
      BY <1>1, <1>2, FreshKey
    <3>2. QED
      BY <1>1, <1>3, <2>1, <3>1
  <2>2. CASE j # k
    BY <1>1, <1>3, <2>2 DEF IInv
  <2>3. QED
    BY <2>1, <2>2
<1>6. QED
  BY <1>4, <1>5 DEF IInv

LEMMA TimeKeeps ==
    ASSUME IInv, Tick
    PROVE  IInv'
<1>1. clock \in Times /\ clock + 1 \in Times
  BY Sizes DEF IInv, TypeOK, Tick, Times
<1>2. TypeOK'
  BY <1>1 DEF IInv, TypeOK, Tick
<1>3. ASSUME NEW k \in Keys
      PROVE  KeyInv(clock, loginAttempts[k], inFlight[k], admitted[k], failed[k])'
  <2>1. KeyInv(clock + 1, loginAttempts[k], inFlight[k], admitted[k], failed[k])
    BY TickKeeps DEF IInv, Tick
  <2>2. QED
    BY <2>1 DEF Tick
<1>4. QED
  BY <1>2, <1>3 DEF IInv

LEMMA RestartKeeps ==
    ASSUME IInv, Restart
    PROVE  IInv'
<1>1. Zero \in [Times -> Nat] /\ 0 \in 0 .. MaxInFlight /\ clock \in Times
  BY Sizes DEF Zero, IInv, TypeOK
<1>2. TypeOK'
  BY <1>1 DEF IInv, TypeOK, Restart, Nothing, Zero
<1>3. ASSUME NEW k \in Keys
      PROVE  KeyInv(clock, loginAttempts[k], inFlight[k], admitted[k], failed[k])'
  <2>1. KeyInv(clock, Null, 0, Zero, Zero)
    BY <1>1, FreshKey
  <2>2. /\ clock' = clock /\ loginAttempts'[k] = Null /\ inFlight'[k] = 0
        /\ admitted'[k] = Zero /\ failed'[k] = Zero
    BY DEF Restart, Nothing, Zero
  <2>3. QED
    BY <2>1, <2>2
<1>4. QED
  BY <1>2, <1>3 DEF IInv

LEMMA StepKeeps == IInv /\ [Next]_vars => IInv'
<1> SUFFICES ASSUME IInv, [Next]_vars PROVE IInv'
  OBVIOUS
<1>1. CASE UNCHANGED vars
  BY <1>1 DEF vars, IInv, TypeOK
<1>2. ASSUME NEW k \in Keys, NEW now \in Readings, Refuse(k, now)
      PROVE  IInv'
  BY <1>2, OnlySweepKeeps DEF Refuse, LimiterSweep
<1>3. QED
  BY <1>1, <1>2, LetThroughKeeps, RecordFailureKeeps, OnlySweepKeeps, SucceedKeeps,
     TimeKeeps, RestartKeeps DEF Next

LEMMA AlwaysInv == Spec => []IInv
BY InitInv, StepKeeps, PTL DEF Spec

-----------------------------------------------------------------------------

(* An entry of the table always counts fewer than MaxFails failures, and   *)
(* its times are times the program has seen (api.go:1473-1492).             *)
THEOREM TypeCorrect == Spec => []TypeOK
<1>1. IInv => TypeOK
  BY DEF IInv
<1>2. QED
  BY <1>1, AlwaysInv, PTL

(* The lock-out works: in an interval shorter than it no key has more than *)
(* MaxFails passwords verified, and one for each attempt in flight beside  *)
(* the one that sets it.                                                   *)
THEOREM LockOutWorks == Spec => []GuessesBounded
<1>1. ASSUME IInv, NEW k \in Keys, NEW t \in Times,
             t <= clock, clock - t + MaxWait < BlockFor, clock - t + MaxWait <= FailWindow
      PROVE  admitted[k][t] < MaxFails + MaxInFlight
  <2>1. KeyInv(clock, loginAttempts[k], inFlight[k], admitted[k], failed[k])
    BY <1>1 DEF IInv
  <2>2. \/ admitted[k][t] <= Count(loginAttempts[k]) + inFlight[k]
        \/ admitted[k][t] < MaxFails + MaxInFlight
    BY <1>1, <2>1 DEF KeyInv, Accounted, Recent
  <2>3. /\ admitted[k][t] \in Nat /\ inFlight[k] \in Nat /\ inFlight[k] <= MaxInFlight
        /\ Count(loginAttempts[k]) \in Nat /\ Count(loginAttempts[k]) < MaxFails
    BY <2>1, CountType, Sizes DEF KeyInv, Typed, History
  <2>4. QED
    BY <2>2, <2>3, Sizes
<1>2. IInv => GuessesBounded
  BY <1>1 DEF GuessesBounded
<1>3. QED
  BY <1>2, AlwaysInv, PTL

(* Nobody is locked out for longer than BlockFor, or without MaxFails      *)
(* failures in a row since the key's last success.                         *)
THEOREM RefusalsAreDeserved == Spec => RefusalJustified
<1>1. ASSUME IInv, NEW k \in Keys, NEW now \in Readings, Refuse(k, now)
      PROVE  \E a, b \in 1 .. clock :
                /\ clock - BlockFor - MaxWait < b
                /\ FailuresIn(k, a, b) >= MaxFails
                /\ \A x \in a .. b - FailWindow - MaxWait :
                      FailuresIn(k, x, x + FailWindow + MaxWait) > 0
  <2> DEFINE e == SweptAttempts(now)[k]
  <2>1. KeyInv(clock, e, inFlight[k], admitted[k], failed[k])
    BY <1>1, SweepKeeps
  <2>2. e # Null /\ e.BlockedUntil > now /\ e \in loginAttemptState
    BY <1>1, <2>1 DEF Refuse, Blocked, KeyInv, Typed
  <2> HIDE DEF e
  <2>3. /\ now \in Nat /\ clock \in Nat /\ clock <= now + MaxWait
        /\ e.BlockedUntil \in Nat /\ e.BlockedUntil # 0
    BY <1>1, <2>2, ReadingType, StateFields
  <2>4. PICK a \in 1 .. clock, b \in 1 .. clock :
           Run(failed[k], MaxFails, a, b) /\ e.BlockedUntil <= b + BlockFor
    BY <2>1, <2>2, <2>3 DEF KeyInv, Deserved
  <2>5. clock - BlockFor - MaxWait < b
    BY <2>2, <2>3, <2>4, Sizes
  <2>6. \A x, y : FailuresIn(k, x, y) = In(failed[k], x, y)
    BY DEF FailuresIn, In
  <2>7. QED
    BY <2>4, <2>5, <2>6 DEF Run
<1>2. IInv /\ [Next]_vars =>
        [\A k \in Keys, now \in Readings :
            Refuse(k, now) =>
                \E a, b \in 1 .. clock :
                    /\ clock - BlockFor - MaxWait < b
                    /\ FailuresIn(k, a, b) >= MaxFails
                    /\ \A x \in a .. b - FailWindow - MaxWait :
                          FailuresIn(k, x, x + FailWindow + MaxWait) > 0]_vars
  BY <1>1
<1>3. QED
  BY <1>2, AlwaysInv, PTL DEF Spec, RefusalJustified
=============================================================================
