----------------------------- MODULE LoginGuard -----------------------------
(***************************************************************************)
(* The lock-out of repeated failed administrator logins                    *)
(* (internal/control/api.go, handleAdminLogin, loginRetryAfterSeconds,     *)
(* recordLoginFailure, clearLoginFailures, sweepStateLocked).              *)
(*                                                                         *)
(* An attempt is checked against the lock-out, then the password is        *)
(* verified without the mutex, then the outcome is recorded: between the   *)
(* first and the last of these, other attempts on the same key pass the    *)
(* check.  Attempts on one key differ in nothing else, so those that are   *)
(* being verified are only counted.  A request aborted by its client fails *)
(* its verification like a wrong password.  Each critical section works    *)
(* with a clock reading taken up to MaxWait ticks before it got the mutex. *)
(* (MaxFails is positive: config.getEnvInt returns no other.)              *)
(***************************************************************************)
EXTENDS Integers

CONSTANTS
    Keys,           \* login name and client address
    Null,
    MaxFails, FailWindow, BlockFor,
    SweepEvery,     \* time.Minute
    MaxWait,        \* bound: ticks between reading the clock and holding the mutex
    MaxInFlight,    \* bound: attempts on one key being verified at a time
    MaxTime         \* bound: the last tick of a behaviour

VARIABLES
    clock,
    loginAttempts,
    lastSweep,
    inFlight,   \* attempts let through whose outcome is not recorded yet
    admitted,   \* history: attempts let through at tick t or later, and
    failed      \* history: failures recorded at tick t or later, both since the
                \*          key's last successful login

vars == <<clock, loginAttempts, lastSweep, inFlight, admitted, failed>>

Times == 1 .. MaxTime      \* 0 is the zero time.Time

loginAttemptState ==
    [Failures : 0 .. MaxFails - 1, LastFailure : Times, BlockedUntil : Nat]

ASSUME GuardAssumption ==
    /\ MaxFails \in Nat \ {0} /\ FailWindow \in Nat \ {0} /\ BlockFor \in Nat \ {0}
    /\ SweepEvery \in Nat /\ MaxWait \in Nat /\ MaxInFlight \in Nat /\ MaxTime \in Nat \ {0}
    /\ Null \notin loginAttemptState

TypeOK ==
    /\ clock \in Times
    /\ loginAttempts \in [Keys -> loginAttemptState \cup {Null}]
    /\ lastSweep \in Times \cup {Null}
    /\ inFlight \in [Keys -> 0 .. MaxInFlight]
    /\ admitted \in [Keys -> [Times -> Nat]]
    /\ failed \in [Keys -> [Times -> Nat]]

Nothing == [k \in Keys |-> [t \in Times |-> 0]]

Init ==
    /\ clock = 1
    /\ loginAttempts = [k \in Keys |-> Null]
    /\ lastSweep = Null
    /\ inFlight = [k \in Keys |-> 0]
    /\ admitted = Nothing
    /\ failed = Nothing

-----------------------------------------------------------------------------

Readings == {now \in Times : clock - MaxWait <= now /\ now <= clock}

SweepDue(now) == lastSweep = Null \/ now - lastSweep >= SweepEvery

Swept(now) == lastSweep' = IF SweepDue(now) THEN now ELSE lastSweep

Blocked(state, now) == state # Null /\ state.BlockedUntil > now

Forgotten(state, now) ==
    ~Blocked(state, now) /\ now - state.LastFailure > 2 * FailWindow

SweptAttempts(now) ==
    [k \in Keys |->
        IF loginAttempts[k] # Null /\ SweepDue(now) /\ Forgotten(loginAttempts[k], now)
        THEN Null ELSE loginAttempts[k]]

\* The state of a key let through: a lock-out that is over is erased.
\* (Slip: every attempt let through erases the failures counted.)
Released_Slip(state) ==
    IF state = Null THEN Null ELSE [state EXCEPT !.Failures = 0, !.BlockedUntil = 0]
Released(state) ==
    IF state = Null \/ state.BlockedUntil = 0 THEN state
    ELSE [state EXCEPT !.Failures = 0, !.BlockedUntil = 0]

\* The failures counted so far, none if the last is too long ago.
\* (Slip: failures are counted for ever.)
Counted_Slip(state, now) == IF state = Null THEN 0 ELSE state.Failures
Counted(state, now) ==
    IF state = Null \/ now - state.LastFailure > FailWindow THEN 0 ELSE state.Failures

\* The state of a key after one more failure.
\* (Slip: the count is not reset by the lock-out.)
Failure_TypeSlip(state, now) ==
    [Failures |-> Counted(state, now) + 1, LastFailure |-> now,
     BlockedUntil |-> IF Counted(state, now) + 1 >= MaxFails THEN now + BlockFor
                      ELSE IF state = Null THEN 0 ELSE state.BlockedUntil]
Failure(state, now) ==
    IF Counted(state, now) + 1 >= MaxFails
    THEN [Failures |-> 0, LastFailure |-> now, BlockedUntil |-> now + BlockFor]
    ELSE [Failures |-> Counted(state, now) + 1, LastFailure |-> now,
          BlockedUntil |-> IF state = Null THEN 0 ELSE state.BlockedUntil]

\* One more event of k, at the present tick.
Noted(history, k) ==
    [history EXCEPT ![k] = [t \in Times |-> history[k][t] + (IF t <= clock THEN 1 ELSE 0)]]

-----------------------------------------------------------------------------

LetThrough(k, now) ==
    /\ inFlight[k] < MaxInFlight
    /\ ~Blocked(SweptAttempts(now)[k], now)
    /\ loginAttempts' = [SweptAttempts(now) EXCEPT ![k] = Released(@)]
    /\ Swept(now)
    /\ inFlight' = [inFlight EXCEPT ![k] = @ + 1]
    /\ admitted' = Noted(admitted, k)
    /\ UNCHANGED <<clock, failed>>

Refuse(k, now) ==
    /\ Blocked(SweptAttempts(now)[k], now)
    /\ loginAttempts' = SweptAttempts(now)
    /\ Swept(now)
    /\ UNCHANGED <<clock, inFlight, admitted, failed>>

RecordFailure(k, now) ==
    /\ inFlight[k] > 0
    /\ loginAttempts' = [SweptAttempts(now) EXCEPT ![k] = Failure(@, now)]
    /\ Swept(now)
    /\ inFlight' = [inFlight EXCEPT ![k] = @ - 1]
    /\ failed' = Noted(failed, k)
    /\ UNCHANGED <<clock, admitted>>

\* The right password forgets the key, a lock-out set meanwhile included.
Succeed(k) ==
    /\ inFlight[k] > 0
    /\ loginAttempts' = [loginAttempts EXCEPT ![k] = Null]
    /\ inFlight' = [inFlight EXCEPT ![k] = @ - 1]
    /\ admitted' = [admitted EXCEPT ![k] = Nothing[k]]
    /\ failed' = [failed EXCEPT ![k] = Nothing[k]]
    /\ UNCHANGED <<clock, lastSweep>>

\* The rate limiter holds the same mutex and sweeps the same state.
LimiterSweep(now) ==
    /\ loginAttempts' = SweptAttempts(now)
    /\ Swept(now)
    /\ UNCHANGED <<clock, inFlight, admitted, failed>>

Tick ==
    /\ clock < MaxTime
    /\ clock' = clock + 1
    /\ UNCHANGED <<loginAttempts, lastSweep, inFlight, admitted, failed>>

\* The table lives in memory; a restart empties it.  The history starts again.
Restart ==
    /\ loginAttempts' = [k \in Keys |-> Null]
    /\ lastSweep' = Null
    /\ inFlight' = [k \in Keys |-> 0]
    /\ admitted' = Nothing
    /\ failed' = Nothing
    /\ UNCHANGED clock

Next ==
    \/ \E k \in Keys, now \in Readings :
          LetThrough(k, now) \/ Refuse(k, now) \/ RecordFailure(k, now)
    \/ \E k \in Keys : Succeed(k)
    \/ \E now \in Readings : LimiterSweep(now)
    \/ Tick
    \/ Restart

Spec == Init /\ [][Next]_vars

-----------------------------------------------------------------------------

(* In every interval that, with the delay at the mutex, is shorter than    *)
(* the lock-out and not longer than the counting window, a key that does   *)
(* not succeed has at most MaxFails passwords verified, and one more for   *)
(* each attempt that may be in flight beside the one that sets the         *)
(* lock-out (api.go:273-282, 1473-1492).                                   *)
GuessesBounded ==
    \A k \in Keys, t \in Times :
        /\ t <= clock
        /\ clock - t + MaxWait < BlockFor
        /\ clock - t + MaxWait <= FailWindow
        => admitted[k][t] < MaxFails + MaxInFlight

(* Failures of k recorded from tick a to tick b.                           *)
FailuresIn(k, a, b) == failed[k][a] - (IF b < MaxTime THEN failed[k][b + 1] ELSE 0)

(* An attempt is refused only if MaxFails failures of its key, no two      *)
(* consecutive ones further apart than the window and the delay, ended     *)
(* within the last BlockFor ticks, and the key has not succeeded since:    *)
(* nobody is locked out longer, or for old failures (api.go:1454-1492).    *)
RefusalJustified ==
    [][\A k \in Keys, now \in Readings :
        Refuse(k, now) =>
            \E a, b \in 1 .. clock :
                /\ clock - BlockFor - MaxWait < b
                /\ FailuresIn(k, a, b) >= MaxFails
                /\ \A x \in a .. b - FailWindow - MaxWait :
                      FailuresIn(k, x, x + FailWindow + MaxWait) > 0]_vars

=============================================================================
