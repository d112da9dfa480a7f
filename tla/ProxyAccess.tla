----------------------------- MODULE ProxyAccess -----------------------------
(***************************************************************************)
(* Connections of the HTTP and SOCKS5 proxies (internal/proxy/http.go,     *)
(* socks5.go) against the user store, with the administrator changing      *)
(* users at any moment and the process crashing and restarting.            *)
(*                                                                         *)
(* A connection is served by a goroutine of its own.  It is authorized     *)
(* once, then dials, carries bytes, and charges them to the user when the  *)
(* transfer has ended.  Time passes between any two of its steps: the      *)
(* wall clock Authorize works with is read before the transaction waits    *)
(* for the only database connection, and is up to MaxWait seconds old when *)
(* the transaction runs.                                                   *)
(***************************************************************************)
EXTENDS UserStore

CONSTANTS
    Conns,              \* goroutines serving proxy connections
    BootstrapUser, BootstrapPass,       \* BOOTSTRAP_USER, BOOTSTRAP_PASS
    MaxWait,            \* bound: seconds between reading the clock and the transaction
    MaxTime,            \* bound: the last second of a behaviour
    MaxBytes,           \* bound: bytes one transfer carries
    MaxQuota,           \* bound: no top-up beyond it
    MaxUsed,            \* bound: no charge that takes used_bytes beyond it
    ExpiryInputs, QuotaInputs, TopUpInputs, UsageInputs, DeviceInputs, StatusInputs,
                        \* what administrators enter; {} leaves the operation out
    LegacyRows          \* user rows an earlier version may have left

VARIABLES
    conns,      \* the goroutines
    lastGrant,  \* history: clock when (user, ip) was last granted; 0 if never, or
                \*          forgotten by a kick or by the user's deletion
    ceiling     \* history: the largest quota in force since the usage counter was
                \*          last zero; 0 if the user was unlimited meanwhile, or an
                \*          administrator added to the counter

vars == <<clock, users, active_ips, conns, lastGrant, ceiling>>

Phases == {"idle", "validate", "authorize", "dial", "copy", "charge"}

Conn == [phase : Phases, user : Users \cup {Null}, ip : IPs \cup {Null},
         secret : Secrets \cup {Null}, now : Nat, cutoff : Int, bytes : Nat]

IdleConn == [phase |-> "idle", user |-> Null, ip |-> Null, secret |-> Null,
             now |-> 0, cutoff |-> 0, bytes |-> 0]

ASSUME AccessAssumption ==
    /\ IsFiniteSet(Conns)
    /\ BootstrapUser \in Users /\ BootstrapPass \in Secrets
    /\ MaxWait \in Nat /\ MaxTime \in Nat /\ MaxBytes \in Nat /\ MaxQuota \in Nat
    /\ MaxUsed \in Nat
    /\ ExpiryInputs \subseteq Nat /\ QuotaInputs \subseteq Nat
    /\ TopUpInputs \subseteq Nat /\ UsageInputs \subseteq Nat /\ DeviceInputs \subseteq Nat
    /\ StatusInputs \subseteq {0, 1}
    /\ LegacyRows \subseteq UserRow

TypeOK ==
    /\ StoreTypeOK
    /\ conns \in [Conns -> Conn]
    /\ lastGrant \in [Users -> [IPs -> Nat]]
    /\ ceiling \in [Users -> Nat]

-----------------------------------------------------------------------------
(* Derived notions.                                                        *)

Waiting(c) == conns[c].phase \in {"validate", "authorize"}

(* Connections that were granted to u and have not been charged yet.       *)
Holders(u) == {c \in Conns : /\ conns[c].phase \in {"dial", "copy", "charge"}
                             /\ conns[c].user = u}

(* The addresses of u granted so recently that no purge may have dropped   *)
(* them: Window seconds, less what a stale clock can take away.            *)
Recent(u) == {ip \in IPs : /\ lastGrant[u][ip] > 0
                           /\ lastGrant[u][ip] + Window >= clock + MaxWait}

(* The addresses of u with a row that not every purge would drop.          *)
Counted(u) == {ip \in IPs : /\ active_ips[u][ip] # Null
                            /\ active_ips[u][ip].last_seen + Window + MaxWait >= clock}

Forget(u) == [lastGrant EXCEPT ![u] = [ip \in IPs |-> 0]]

MaxOf(a, b) == IF a >= b THEN a ELSE b

Raise(u, quota) == IF quota = 0 \/ ceiling[u] = 0 THEN 0 ELSE MaxOf(ceiling[u], quota)

-----------------------------------------------------------------------------
(* NewStore on an existing database: rows of any earlier version, devices  *)
(* seen before this start, some with the first_seen 0 of an old schema.    *)
Init ==
    /\ clock = 1
    /\ users \in [Users -> LegacyRows \cup {Null}]
    /\ active_ips \in [Users -> [IPs -> {Null, [first_seen |-> 0, last_seen |-> 1]}]]
    /\ \A u \in Users, ip \in IPs : active_ips[u][ip] # Null => Exists(u)
    /\ conns = [c \in Conns |-> IdleConn]
    /\ lastGrant = [u \in Users |-> [ip \in IPs |-> 0]]
    /\ ceiling = [u \in Users |-> IF Exists(u) /\ users[u].used_bytes = 0
                                  THEN users[u].quota_bytes ELSE 0]

(* Time passes, but nobody waits for the database longer than MaxWait.     *)
Tick ==
    /\ clock < MaxTime
    /\ \A c \in Conns : Waiting(c) => clock < conns[c].now + MaxWait
    /\ clock' = clock + 1
    /\ UNCHANGED <<users, active_ips, conns, lastGrant, ceiling>>

-----------------------------------------------------------------------------
(* One connection.                                                         *)

(* authorizeHTTP or handleUserPassAuth has the credentials and the client  *)
(* address and calls Validate; Authorize starts by reading the clock.      *)
Validate(c, u, pw, ip) ==
    /\ conns[c].phase = "idle"
    /\ conns' = [conns EXCEPT ![c] =
                   [@ EXCEPT !.phase = "validate", !.user = u, !.secret = pw,
                             !.ip = ip, !.now = clock]]
    /\ UNCHANGED <<clock, users, active_ips, lastGrant, ceiling>>

(* The second reading of the clock; then BeginTx waits for the database.   *)
ReadCutoff(c) ==
    /\ conns[c].phase = "validate"
    /\ conns' = [conns EXCEPT ![c] =
                   [@ EXCEPT !.phase = "authorize", !.cutoff = clock - Window]]
    /\ UNCHANGED <<clock, users, active_ips, lastGrant, ceiling>>

(* The transaction commits: the proxy goes on to dial the target.          *)
Grant(c) ==
    LET q == conns[c] IN
    /\ q.phase = "authorize"
    /\ AuthorizeGrant(q.user, q.secret, q.ip, q.now, q.cutoff)
    /\ conns' = [conns EXCEPT ![c] = [IdleConn EXCEPT !.phase = "dial", !.user = q.user]]
    /\ lastGrant' = [lastGrant EXCEPT ![q.user][q.ip] = clock]
    /\ UNCHANGED ceiling

(* Refused: 407, or the SOCKS5 authentication failure.                     *)
Deny(c) ==
    LET q == conns[c] IN
    /\ q.phase = "authorize"
    /\ AuthorizeDeny(q.user, q.secret, q.ip, q.now, q.cutoff)
    /\ conns' = [conns EXCEPT ![c] = IdleConn]
    /\ UNCHANGED <<lastGrant, ceiling>>

(* The database reports an error: rolled back, and refused all the same.   *)
InternalError(c) ==
    /\ conns[c].phase = "authorize"
    /\ conns' = [conns EXCEPT ![c] = IdleConn]
    /\ UNCHANGED <<clock, users, active_ips, lastGrant, ceiling>>

(* Dial, hijack, round trip or SOCKS5 reply failed: nothing to charge.     *)
DialFails(c) ==
    /\ conns[c].phase = "dial"
    /\ conns' = [conns EXCEPT ![c] = IdleConn]
    /\ UNCHANGED <<clock, users, active_ips, lastGrant, ceiling>>

StartTransfer(c) ==
    /\ conns[c].phase = "dial"
    /\ conns' = [conns EXCEPT ![c].phase = "copy"]
    /\ UNCHANGED <<clock, users, active_ips, lastGrant, ceiling>>

(* Both copiers are done, with their total; RecordUsage drops a 0.         *)
EndTransfer(c, n) ==
    /\ conns[c].phase = "copy"
    /\ conns' = [conns EXCEPT ![c] =
                   IF n = 0 THEN IdleConn ELSE [@ EXCEPT !.phase = "charge", !.bytes = n]]
    /\ UNCHANGED <<clock, users, active_ips, lastGrant, ceiling>>

(* A slip: each of the two copiers charges the total.                      *)
RecordUsage_Slip(c) ==
    /\ conns[c].phase = "charge"
    /\ AddUsage(conns[c].user, 2 * conns[c].bytes)
    /\ conns' = [conns EXCEPT ![c] = IdleConn]
    /\ UNCHANGED <<lastGrant, ceiling>>

(* The total is charged to whoever has the name now.                       *)
RecordUsage(c) ==
    /\ conns[c].phase = "charge"
    /\ Exists(conns[c].user) =>
         users[conns[c].user].used_bytes + conns[c].bytes <= MaxUsed
    /\ AddUsage(conns[c].user, conns[c].bytes)
    /\ conns' = [conns EXCEPT ![c] = IdleConn]
    /\ UNCHANGED <<lastGrant, ceiling>>

(* AddUsage failed: the error is logged and the bytes are not retried.     *)
RecordFails(c) ==
    /\ conns[c].phase = "charge"
    /\ conns' = [conns EXCEPT ![c] = IdleConn]
    /\ UNCHANGED <<clock, users, active_ips, lastGrant, ceiling>>

-----------------------------------------------------------------------------
(* The administrator.                                                      *)

AdminCreateUser(u, pw, expires, quota, devices) ==
    /\ CreateUser(u, pw, expires, quota, devices)
    /\ ceiling' = [ceiling EXCEPT ![u] = quota]
    /\ UNCHANGED <<conns, lastGrant>>

AdminDeleteUser(u) ==
    /\ DeleteUser(u)
    /\ lastGrant' = Forget(u)
    /\ ceiling' = [ceiling EXCEPT ![u] = 0]
    /\ UNCHANGED conns

AdminKickDevice(u, ip) ==
    /\ DeleteUserDevice(u, ip)
    /\ lastGrant' = [lastGrant EXCEPT ![u][ip] = 0]
    /\ UNCHANGED <<conns, ceiling>>

AdminResetUsage(u) ==
    /\ ResetUserUsage(u)
    /\ ceiling' = [ceiling EXCEPT ![u] = users[u].quota_bytes]
    /\ UNCHANGED <<conns, lastGrant>>

AdminSetQuota(u, bytes) ==
    /\ SetUserQuota(u, bytes)
    /\ ceiling' = [ceiling EXCEPT ![u] = Raise(u, bytes)]
    /\ UNCHANGED <<conns, lastGrant>>

AdminTopUp(u, bytes) ==
    /\ users[u] # Null => users[u].quota_bytes + bytes <= MaxQuota
    /\ TopUpQuota(u, bytes)
    /\ ceiling' = [ceiling EXCEPT ![u] = Raise(u, users'[u].quota_bytes)]
    /\ UNCHANGED <<conns, lastGrant>>

(* Usage measured elsewhere, entered by hand.                              *)
AdminAddUsage(u, bytes) ==
    /\ users[u] # Null => users[u].used_bytes + bytes <= MaxUsed
    /\ AddUsage(u, bytes)
    /\ ceiling' = IF bytes > 0 THEN [ceiling EXCEPT ![u] = 0] ELSE ceiling
    /\ UNCHANGED <<conns, lastGrant>>

AdminSetUser(u) ==
    /\ \/ \E s \in StatusInputs : SetUserStatus(u, s)
       \/ \E n \in DeviceInputs : SetUserMaxDevices(u, n)
       \/ \E pw \in Secrets : SetUserPassword(u, pw)
    /\ UNCHANGED <<conns, lastGrant, ceiling>>

AdminBatchStatus(names, s) ==
    /\ BatchSetUserStatus(names, s)
    /\ UNCHANGED <<conns, lastGrant, ceiling>>

-----------------------------------------------------------------------------
(* The process dies with whatever its goroutines had not charged, and      *)
(* starts again on the same database.                                      *)
Restart ==
    /\ conns' = [c \in Conns |-> IdleConn]
    /\ EnsureBootstrapUser(BootstrapUser, BootstrapPass)
    /\ UNCHANGED <<clock, active_ips, lastGrant, ceiling>>

ConnStep(c) ==
    \/ \E u \in Users, pw \in Secrets, ip \in IPs : Validate(c, u, pw, ip)
    \/ ReadCutoff(c) \/ Grant(c) \/ Deny(c) \/ InternalError(c)
    \/ DialFails(c) \/ StartTransfer(c)
    \/ \E n \in 0..MaxBytes : EndTransfer(c, n)
    \/ RecordUsage(c) \/ RecordFails(c)

AdminStep(u) ==
    \/ \E pw \in Secrets, e \in ExpiryInputs, q \in QuotaInputs, n \in DeviceInputs :
         AdminCreateUser(u, pw, e, q, n)
    \/ AdminDeleteUser(u)
    \/ \E ip \in IPs : AdminKickDevice(u, ip)
    \/ AdminResetUsage(u)
    \/ \E q \in QuotaInputs : AdminSetQuota(u, q)
    \/ \E b \in TopUpInputs : AdminTopUp(u, b)
    \/ \E b \in UsageInputs : AdminAddUsage(u, b)
    \/ AdminSetUser(u)

Next ==
    \/ Tick
    \/ \E c \in Conns : ConnStep(c)
    \/ \E u \in Users : AdminStep(u)
    \/ \E names \in SUBSET Users, s \in StatusInputs : AdminBatchStatus(names, s)
    \/ Restart

Spec == Init /\ [][Next]_vars

-----------------------------------------------------------------------------
(* Properties.                                                             *)

(* An address admitted less than Window - MaxWait seconds ago still holds  *)
(* its row in active_ips, whatever concurrent Authorize transactions with  *)
(* older clocks have purged or overwritten since; only a kick or the       *)
(* user's deletion takes it away.                                          *)
GrantedDeviceIsCounted ==
    \A u \in Users, ip \in IPs : ip \in Recent(u) => active_ips[u][ip] # Null

(* A user cannot be used from more addresses than max_devices: when        *)
(* Authorize admits an address that had no countable row, the addresses    *)
(* admitted within the protected window, this one included, are at most    *)
(* max_devices.  (Lowering max_devices does not evict; nobody new gets in.)*)
DevicesWithinLimit ==
    [][\A u \in Users : ~(Recent(u)' \subseteq Counted(u))
         => Cardinality(Recent(u)') <= DeviceLimit(users[u])]_vars

(* The quota is checked before a transfer and charged after it, so a user  *)
(* overshoots; but by no more than one transfer per connection slot, as    *)
(* long as the quota was only raised, and nothing added by hand, since the *)
(* counter was zero.  Nothing is charged twice, and a deleted and          *)
(* re-created name is no way around.                                       *)
QuotaOvershootBounded ==
    \A u \in Users : Exists(u) /\ ceiling[u] > 0 =>
        users[u].used_bytes <= (ceiling[u] - 1) + MaxBytes * Cardinality(Conns)

(* Only an enabled user with that password and quota left gets a           *)
(* connection, and an expired one at most MaxWait seconds too late, though *)
(* the administrator may change the row between the request and the        *)
(* transaction.                                                            *)
GrantsAreEntitled ==
    [][\A c \in Conns :
         conns[c].phase = "authorize" /\ conns'[c].phase = "dial" =>
           LET row == users[conns[c].user] IN
           /\ row # Null
           /\ VerifyStoredPassword(row.password, conns[c].secret)
           /\ row.status = 1
           /\ row.expires_at > 0 => clock <= row.expires_at + MaxWait
           /\ row.quota_bytes > 0 => row.used_bytes < row.quota_bytes]_vars
=============================================================================
