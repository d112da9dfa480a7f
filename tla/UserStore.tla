------------------------------ MODULE UserStore ------------------------------
(***************************************************************************)
(* The user side of the control plane's SQLite store                       *)
(* (internal/control/store.go): the tables users and active_ips, and the   *)
(* statements and transactions that read and write them.                   *)
(*                                                                         *)
(* The store opens its database with SetMaxOpenConns(1), so that every     *)
(* statement and every transaction runs alone: each is one action here.    *)
(* What a function of the store does BEFORE it gets the connection (read   *)
(* the wall clock) or BETWEEN two statements (ExtendUserDays) is a step of *)
(* its own, taken in the modules that extend this one.                     *)
(*                                                                         *)
(* Columns that no decision of the proxies depends on (tag, user_agent,    *)
(* created_at, updated_at, speed_limit_kbps) are left out; the smb_        *)
(* columns are in SmbProvisioning.                                         *)
(***************************************************************************)
EXTENDS Integers, FiniteSets

CONSTANTS
    Users,      \* normalised usernames, the primary key of table users
    IPs,        \* client addresses
    Secrets,    \* raw passwords
    Null,       \* no row with this key, no value
    Window      \* DEVICE_WINDOW in seconds: how long an address counts as a device

VARIABLES
    clock,      \* time.Now().Unix()
    users,      \* table users: username -> row, or Null
    active_ips  \* table active_ips: username -> ip -> row, or Null

storeVars == <<clock, users, active_ips>>

(* Column password: a bcrypt hash, or the plaintext an old version stored. *)
Password == [form : {"plain", "hash"}, secret : Secrets]

UserRow == [password : Password, status : {0, 1}, expires_at : Nat,
            quota_bytes : Nat, used_bytes : Nat, max_devices : Nat]

DeviceRow == [first_seen : Nat, last_seen : Nat]

ASSUME StoreAssumption ==
    /\ Window \in Nat \ {0}
    /\ IsFiniteSet(IPs)
    /\ Null \notin UserRow \cup DeviceRow

StoreTypeOK ==
    /\ clock \in Nat
    /\ users \in [Users -> UserRow \cup {Null}]
    /\ active_ips \in [Users -> [IPs -> DeviceRow \cup {Null}]]

-----------------------------------------------------------------------------
(* Passwords.                                                              *)

Hashed(pw) == [form |-> "hash", secret |-> pw]

VerifyStoredPassword(stored, pw) == stored.secret = pw

(* Users. `Exists` is what a WHERE username = ? finds.                     *)

Exists(u) == users[u] # Null

NewRow(pw, expires, quota, devices) ==
    [password |-> Hashed(pw), status |-> 1, expires_at |-> expires,
     quota_bytes |-> quota, used_bytes |-> 0,
     max_devices |-> IF devices <= 0 THEN 1 ELSE devices]

(* A slip: INSERT OR REPLACE.                                              *)
CreateUser_Slip(u, pw, expires, quota, devices) ==
    /\ users' = [users EXCEPT ![u] = NewRow(pw, expires, quota, devices)]
    /\ UNCHANGED <<clock, active_ips>>

(* INSERT fails on the primary key when the user exists.                   *)
CreateUser(u, pw, expires, quota, devices) ==
    /\ ~Exists(u)
    /\ users' = [users EXCEPT ![u] = NewRow(pw, expires, quota, devices)]
    /\ UNCHANGED <<clock, active_ips>>

(* The first user of an empty database, at every start.                    *)
EnsureBootstrapUser(u, pw) ==
    users' = IF \E v \in Users : Exists(v) THEN users
             ELSE [users EXCEPT ![u] = NewRow(pw, 0, 0, 1)]

(* One transaction: the devices, then the user.  With no user row the      *)
(* deferred rollback undoes the first DELETE.                              *)
DeleteUser(u) ==
    /\ Exists(u)
    /\ users' = [users EXCEPT ![u] = Null]
    /\ active_ips' = [active_ips EXCEPT ![u] = [ip \in IPs |-> Null]]
    /\ UNCHANGED clock

(* UPDATE users SET ... WHERE username = ?: no row, no effect, no error.   *)
UpdateUser(u, row) ==
    /\ Exists(u)
    /\ users' = [users EXCEPT ![u] = row]
    /\ UNCHANGED <<clock, active_ips>>

SetUserStatus(u, status) ==
    UpdateUser(u, [users[u] EXCEPT !.status = status])

(* One transaction over the names, unknown names included.                 *)
BatchSetUserStatus(names, status) ==
    /\ users' = [u \in Users |->
                   IF u \in names /\ Exists(u)
                   THEN [users[u] EXCEPT !.status = status] ELSE users[u]]
    /\ UNCHANGED <<clock, active_ips>>

SetUserMaxDevices(u, devices) ==
    /\ devices > 0
    /\ UpdateUser(u, [users[u] EXCEPT !.max_devices = devices])

SetUserPassword(u, pw) ==
    UpdateUser(u, [users[u] EXCEPT !.password = Hashed(pw)])

(* A slip: takes the quota off the counter where the code sets it to 0.    *)
ResetUserUsage_Slip(u) ==
    UpdateUser(u, [users[u] EXCEPT !.used_bytes = @ - users[u].quota_bytes])

ResetUserUsage(u) ==
    UpdateUser(u, [users[u] EXCEPT !.used_bytes = 0])

SetUserQuota(u, bytes) ==
    /\ bytes >= 0
    /\ UpdateUser(u, [users[u] EXCEPT !.quota_bytes = bytes])

TopUpQuota(u, bytes) ==
    /\ bytes > 0
    /\ UpdateUser(u, [users[u] EXCEPT !.quota_bytes = @ + bytes])

(* The charge of a finished transfer; nothing if the user is gone.         *)
AddUsage(u, bytes) ==
    /\ users' = IF Exists(u) /\ bytes > 0
                THEN [users EXCEPT ![u].used_bytes = @ + bytes] ELSE users
    /\ UNCHANGED <<clock, active_ips>>

-----------------------------------------------------------------------------
(* Devices.                                                                *)

DeleteUserDevice(u, ip) ==
    /\ active_ips' = [active_ips EXCEPT ![u][ip] = Null]
    /\ UNCHANGED <<clock, users>>

(* A slip: the row seen exactly Window seconds ago goes too.               *)
Purged_Slip(cutoff) ==
    [u \in Users |-> [ip \in IPs |->
       IF active_ips[u][ip] # Null /\ active_ips[u][ip].last_seen <= cutoff
       THEN Null ELSE active_ips[u][ip]]]

(* DELETE FROM active_ips WHERE last_seen < cutoff, of every user.         *)
Purged(cutoff) ==
    [u \in Users |-> [ip \in IPs |->
       IF active_ips[u][ip] # Null /\ active_ips[u][ip].last_seen < cutoff
       THEN Null ELSE active_ips[u][ip]]]

(* The addresses of u with a row in the table `rows`.                      *)
DevicesIn(rows, u) == {ip \in IPs : rows[u][ip] # Null}

DeviceLimit(row) == IF row.max_devices <= 0 THEN 1 ELSE row.max_devices

(* A slip: the row is stamped with the cutoff, not with the present.       *)
SeenAt_Slip(old, now) == [first_seen |-> now, last_seen |-> now - Window]

(* A row keeps the first_seen it has, unless an old version left it 0.     *)
SeenAt(old, now) ==
    [first_seen |-> IF old # Null /\ old.first_seen > 0
                    THEN old.first_seen ELSE now,
     last_seen  |-> now]

(* A slip: the device being admitted is not counted.                       *)
Authorized_CountSlip(u, pw, ip, now, cutoff) ==
    /\ Exists(u)
    /\ VerifyStoredPassword(users[u].password, pw)
    /\ users[u].status = 1
    /\ Cardinality(DevicesIn(Purged(cutoff), u)) <= DeviceLimit(users[u])

(* A slip: the row's status is not looked at.                              *)
Authorized_StatusSlip(u, pw, ip, now, cutoff) ==
    /\ Exists(u)
    /\ VerifyStoredPassword(users[u].password, pw)
    /\ users[u].expires_at > 0 => now <= users[u].expires_at
    /\ users[u].quota_bytes > 0 => users[u].used_bytes < users[u].quota_bytes

(* The checks of Authorize, in their order.  `now` and `cutoff` were read  *)
(* before the transaction began.                                           *)
Authorized(u, pw, ip, now, cutoff) ==
    /\ Exists(u)
    /\ VerifyStoredPassword(users[u].password, pw)
    /\ users[u].status = 1
    /\ users[u].expires_at > 0 => now <= users[u].expires_at
    /\ users[u].quota_bytes > 0 => users[u].used_bytes < users[u].quota_bytes
    /\ \/ ip \in DevicesIn(Purged(cutoff), u)
       \/ Cardinality(DevicesIn(Purged(cutoff), u)) < DeviceLimit(users[u])

(* The committed transaction: purge, upgrade of a plaintext password, and  *)
(* the row of this device.                                                 *)
AuthorizeGrant(u, pw, ip, now, cutoff) ==
    /\ Authorized(u, pw, ip, now, cutoff)
    /\ users' = [users EXCEPT ![u].password = Hashed(pw)]
    /\ active_ips' = [Purged(cutoff) EXCEPT ![u][ip] = SeenAt(@, now)]
    /\ UNCHANGED clock

(* A denial returns before the commit: the deferred rollback takes back    *)
(* the purge and the upgrade too.                                          *)
AuthorizeDeny(u, pw, ip, now, cutoff) ==
    /\ ~Authorized(u, pw, ip, now, cutoff)
    /\ UNCHANGED storeVars
=============================================================================
