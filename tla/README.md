# TLA+ specifications of the HTTP + SOCKS5 proxy platform

The program is one Go process: an HTTP proxy and a SOCKS5 proxy that
authenticate every connection against users kept in SQLite, and an
administration server with a JSON API, a browser UI and WebDAV. This directory
holds TLA+ models of its control logic, TLC runs that check them on small
instances, and TLAPS proofs of theorems for every value of the constants.
Source lines below are those of the repository (`internal/control/store.go` is
`store.go`, and so on); `PROJECT.json` maps every definition to the lines it
models.

## 1. Inventory of the system

| Component | State | Operations | Talks to |
|---|---|---|---|
| Store, users (`store.go`) | tables `users`, `active_ips` | create, bootstrap, delete, status, batch status, max devices, password, reset usage, extend, top up, quota, SMB columns, `AddUsage`, `Authorize`, devices | every other component calls it; one database connection (`SetMaxOpenConns(1)`, store.go:125) makes each statement and each transaction atomic |
| Store, administrators (`store.go`) | tables `admins`, `admin_sessions` | bootstrap, create, status, role, passwords; create, validate, delete, list sessions | admin API |
| Authenticator (`auth.go`) | none | `Validate`, `RecordUsage`, speed limit | between the proxies and the store |
| HTTP proxy (`proxy/http.go`) | one goroutine per connection | authorize, CONNECT, forward, tunnel, record usage | store through the authenticator, targets |
| SOCKS5 proxy (`proxy/socks5.go`) | one goroutine per connection | handshake, user/password, connect, tunnel, record usage | the same |
| Admin API (`api.go`) | `rateBuckets`, `loginAttempts`, `lastSweep` under a mutex; counters | every `/api/admin/` handler | store, file system, Samba scripts |
| SMB provisioning (`api.go`) | directories, shares and accounts on the router | enable, disable, the SMB part of create, delete and password changes | file system, `uci`, `smbpasswd` |
| WebDAV (`api.go`) | none of its own | authenticate, ensure the directory, serve it | store, file system |
| Client address (`netutil/client_ip.go`) | none | `ResolveClientIP` | HTTP proxy, admin API |
| UI (`ui.go`) | browser state | polling, alerts, paging, CSV import and export | admin API |
| Process (`main.go`, `config.go`) | configuration | start, shutdown | all |

What makes it hard:

- **The clock is read before the lock.** `Authorize`, the rate limiter, the login
  guard and the session code all read the wall clock and then wait: for the
  only database connection or for a mutex. They then work with readings that are old and out of
  order (store.go:1129, api.go:127, api.go:273, store.go:501-549).
- **Check, then act.** Quota is compared before a transfer and charged after it;
  the login lock-out is checked before a slow password verification and recorded
  after it; a role is read at the start of a request and used to its end; a
  WebDAV login verifies a password in one statement and writes its hash in
  another.
- **Several systems without a transaction.** SMB provisioning does steps in the
  database, the file system and the router's configuration, any of which fails.
- **Several requests without a transaction.** The page creates a user and extends
  it, imports a line of CSV, acts on a selection and exports page after page, one
  request at a time, while other pages do the same (ui.go:1536-1572, 1872-2216).
- **Crashes and restarts.** Usage not yet charged, buckets and lock-outs are lost;
  sessions and rows stay; every start rewrites the bootstrap administrators.

What makes each component correct: a user is not used from more addresses than
allowed and an admitted device is not forgotten; the quota is overshot by a bounded
amount; only entitled users are granted; a client gets no more than its rate and
no refusal it does not deserve; passwords cannot be guessed faster than the
lock-out allows and nobody is locked out wrongly; ended sessions stay ended and used ones
last; lost authority is lost on the next request; row, directory, share and Samba account
agree; the password in force, of a user or an administrator, is the one last given; what
a click did only in part is shown, paid days are not lost, an export is as good as complete. The properties of section 3 say
these exactly. `PROJECT.json` lists the hazards behind them under `hazards`,
each at its line.

## 2. Modules

| Module | Models | Extends |
|---|---|---|
| `UserStore` | tables `users`, `active_ips`; one operator per store function | |
| `ProxyAccess` | connections of both proxies, administrator, time, restarts | `UserStore` |
| `AccessLedger` | what the proxies promise: accounts, devices, admissions, charges | |
| `ProxyAccessRefinement` | the mapping by which `ProxyAccess` implements `AccessLedger` | `ProxyAccess` |
| `ProxyAccessProofs` | six theorems about `ProxyAccess`, the refinement among them | `ProxyAccessRefinement` |
| `AdminConsole` | the page's clicks as sequences of requests, extensions, listings | `UserStore` |
| `AdminConsoleProofs` | four theorems about `AdminConsole` | `AdminConsole` |
| `RateLimiter` | token buckets of the admin API | |
| `RateLimiterProofs` | three theorems about `RateLimiter` | `RateLimiter` |
| `ProxyServers` | the proxies' servers, tunnels and forwarded requests, from start to shutdown | |
| `ProxyServersProofs` | two theorems about `ProxyServers` | `ProxyServers` |
| `LoginGuard` | lock-out of failed administrator logins | |
| `LoginGuardProofs` | three theorems about `LoginGuard` | `LoginGuard` |
| `AdminSessions` | administrators, sessions, the requests that change them | |
| `AdminSessionsProofs` | five theorems about `AdminSessions` | `AdminSessions` |
| `SmbProvisioning` | row, directory, share and Samba account of SMB users | |
| `SmbProvisioningProofs` | three theorems about `SmbProvisioning` | `SmbProvisioning` |
| `Credentials` | passwords of users and of administrators | |
| `CredentialsProofs` | four theorems about `Credentials` | `Credentials` |
| `MC*` | the instances TLC checks | the module they are named for |

Conventions. An operation that the database or a mutex makes atomic is one
action. A function with several statements is several actions, and the request
that is between two of them is a record in a variable. `now` is a parameter
chosen among the readings the request may have taken. Variables marked
*history* record what happened for the properties and never guard an action.
A definition called `X_Slip` above `X` is a plausible mistake in the code of `X`;
no specification uses one; substituting it for `X` must violate the property
`PROJECT.json` pairs it with under `mutants`.
`Restart` is at once a crash and a start: everything in memory goes,
everything in the database or on the disk stays, and what the start itself writes
is written.

### UserStore and ProxyAccess

`users` and `active_ips` are the tables as functions from keys to rows or `Null`;
each operator is one statement or one transaction. A missing row makes an UPDATE
do nothing, which the operators model as no step. A refused
`Authorize` returns before its commit, so its purge of old devices and its
password upgrade are undone: `AuthorizeDeny` changes nothing.

A connection goes through `idle` → `validate` (credentials and address read,
first clock reading) → `authorize` (second clock reading, waiting for the
database) → `dial` → `copy` → `charge` → `idle`. `Grant` and `Deny` are the
transaction. `EndTransfer` is the moment both copiers have ended, `RecordUsage`
the charge, by user name, to whoever has the name now. `RecordFails` and `Restart`
lose it. The administrator does any operation of the store between any two steps.
The two proxies differ only in how they get the credentials, so one connection
type stands for both.

Bounds: `MaxWait` (seconds between clock reading and transaction),
`MaxTime`, `MaxBytes` (bytes of one transfer), `MaxQuota`, `MaxUsed`, and the
sets of administrator inputs. The theorems hold for all values of them.

### AccessLedger and its refinement

`AccessLedger` is what a customer of the proxies would be told: a connection is
admitted to an account in one step, on one of its devices, and charged to it at most
once. It has no clocks, passwords, expiry or phases. `ProxyAccessRefinement` maps a row
to an account (`DeviceLimit` is the code's reading of `max_devices`), the rows of
`active_ips` to its devices, and the phases `dial`, `copy`, `charge` to holding it.
`ImplementsLedger` then says that however requests with old clocks overlap, with each
other and with the administrator, they amount to some order of single admissions,
charges and releases. What the ledger leaves open on purpose: any device may stop
counting at any admission, since that is a matter of time, and a charge by name reaches
whoever has the name.

### AdminConsole

A tab is one activity of an administrator: a click that turned into a sequence of
blocks (`todo`), each block the requests about one user inside one `try`, or an export that
fetches pages (`fetch`). Nothing in the page stops a second click while the first is at work,
so two tabs are two activities of one page or of two. `Refused` is the catch: the rest
of the block is dropped, the failure counted (`report`). `Show` puts what was counted on
display when the activity has come to its end, and `Replaced` takes it away: a toast is
gone after some seconds, and the form's one status line, which all creations of a page share,
takes the outcome of another one, success included, or a complaint about an empty form.
`Close` is the page closed, reloaded or left at any moment of the activity: the requests not
sent never are, and nothing is shown. A page with two activities closes both, which the
model does one after the other. Every answer may be lost after its effect
(`Replied`), and a request may end for the page while its handler goes on (`awaited` in
`extending`). `BeginExtend` and `CommitExtend` are the two statements of
`ExtendUserDays`; `CountUsers` and `SelectPage` those of `ListUsers` and the page's loop
around it. `listing` is the order of `created_at`, in which a new row may come anywhere:
ties within a second, clocks set back. What a query finds is the matching rows in that
order, each once (`Found`: their increasing enumeration), and `Page` is its LIMIT and OFFSET. `promise` and `asked` are history: the expiry a
user's extensions add up to, and what its creation was to be followed by; so is `overtaken` of an
extension: its name was given to a new user since it read the last one's row.
`Forgotten` drops from `asked` the users a tab left half-done when nothing tells of them any more.

Operations that are one request each (passwords, quotas, devices, SMB) are in the
modules of their handlers. A catch also reports a reload of the list that failed after
everything was done; the model has such a failure with the last request of a block. What a batch shows is left out: it creates nobody, and is
called without a catch, so that a failing reload hides its failures (ui.go:2338-2342). The
page offers negative days and megabytes in its dialogs (ui.go:1688, 1720, 1878, 1939), which
the store refuses (store.go:947, 965): to the model a refused request like any other.

### ProxyServers

The other half of a connection: `ProxyAccess` takes a transfer as one total and looks at who is
charged; `ProxyServers` takes the user as given and looks at the tunnel. `main`
goes `serving` → `waiting` (signal) → `closed` (all servers returned, store closed by
the deferred call) → `exited`; each server `starting` → `listening` → (`closing` for
SOCKS5, which waits for its wait group) → `returned`, or directly to `returned` if it
cannot listen. The admin server is one more HTTP server and has no element of its own.

A connection goes `none` → `setup` → `tunnel` or `forward` → `over`. A request to the
HTTP proxy is an element of its own even when others came before it on the same
connection. In a tunnel each side has bytes
sent and not yet read (`pending`) and bytes copied, and `copiers` are the goroutines of
`tunnelWithUsage` that still run. `Copy` reads and writes one unit, `CopierEnds` is
`copyWithLimit` returning: end of input, reset, or a write to a side that is gone; it
does not close or half-close the other side. A `forward` is `handleForward` from
`RoundTrip` on: one copier, for the response, which also ends when the client's side
does (net/http cancels the request's context, which the outgoing request shares) or when
the server's `WriteTimeout` of 30 s has passed (`CutShort`). The body of the request is
left out: it is not counted. `RecordUsage` is the second `<-done` and
the charge. `Send` and `Leave` are the peers. `Kill` may come at any time; after it or `Exit`
the history (`charged`, `failed`) starts again, so that it is about one life of the process.
`MaxBytes` bounds what the peers of one connection send.

### RateLimiter

A tick is the time in which a bucket gains one unit, and a request costs `Cost`
units, so `ADMIN_RATE_LIMIT_RPS` and fractions of tokens are exact integers.
`Admit` and `Reject` are `allowAdminAPIRequest` with its sweep,
`LoginSweep` is the same sweep started by the login handlers. `spent` records what
each client was charged since each tick. A restart forgets the buckets and starts the
history again: the code promises nothing across restarts.

### LoginGuard

`LetThrough` and `Refuse` are `loginRetryAfterSeconds`, `RecordFailure` is
`recordLoginFailure`, `Succeed` is `clearLoginFailures`; all but the last sweep first.
Between `LetThrough` and its outcome the attempt only counts in `inFlight`, since
attempts on one key are alike. `LimiterSweep` is the sweep by other requests.

### AdminSessions

The phases of a request are the statements of the code: `Begin` (clean-up),
`Authenticate`/`Unauthorized` (SELECT), `Renew` (UPDATE), then one of `Logout`,
`ListOwn` and `DeleteSession`, `CreateAdmin`, `SetAdminStatus`, `SetAdminRole`, or
`Leave`, which stands for all other requests, for the ones `allowMethod` refuses, and
for a request that breaks off after any statement. `Login`, `LoginCleanUp` and
`CreateSession` are a login. `MaxWait` bounds how long a request lasts; `Managed`
limits which administrators requests change.

### SmbProvisioning

Each handler is a sequence of steps, each an action that may also fail, with or
without its effect where the code can do either (a directory is made before the
script that sets its permissions runs; a share is committed before Samba is
restarted). `disturbed` records that requests on the user overlapped or that one
was left half-done, among them a deletion whose `GetUser` failed (`ReadRowFails`): it skips the
clean-up, deletes the row all the same and reports success (api.go:549-567). A disable, or the deletion of a user whose flag is on, that nothing else
overlapped clears the mark, because it removes both share and directory. `cleaned` records that
the last completed request was a disable or a deletion. `UpdatePassword`, `ReadRow` and
`SyncAccount` are a password change: the row first, then, if the flag is on, the account.
`done` is whether `smbpasswd` did its work, which the script's exit status does not tell.
`unsynced` records that the account was not given the row's password, or not by a request
alone among those that give one. `Rivals` are the requests that disturb each other: those
that touch row, directory and share, and those that give a password. Nothing removes an
account, so a new user of an old name meets the last owner's.

### Credentials

Users. `Authorize` verifies and upgrades in one transaction. A WebDAV login is
`Authenticate` (SELECT and comparison), `Upgrade` or `UpgradeFails`, and
`Answer`. `Long` are the passwords bcrypt refuses (more than 72 bytes). `raced`
records that a password was given while a login was about to write the hash of the
old one; `entered` that a login with the stored password has succeeded.

Administrators. `VerifyOld` and `WriteNew` are the two statements of
`ChangeAdminPassword`, `Give` is `SetAdminPassword` and the INSERT of `CreateAdmin`,
and `Restart` writes the configured passwords of the bootstrap accounts again. `given`
records the password last given by a super, by a start, or by an administrator who knew
the one given before; `overtaken` that it was given while a change was between its
statements.

## 3. Runs

| Run | Instance | Checks |
|---|---|---|
| `proxy_devices` | 1 user, 2 addresses, 2 connections, window 2 s, wait 1 s, 5 s; `max_devices` 1 and 2 | `TypeOK`, `GrantedDeviceIsCounted`, `DevicesWithinLimit`, `ImplementsLedger` |
| `proxy_quota` | 1 user, 1 address, 2 passwords, 2 connections, transfers of 0 or 1, quota up to 2 | `QuotaOvershootBounded`, `GrantsAreEntitled`, `ImplementsLedger` |
| `proxy_servers` | 1 SOCKS5 connection and 1 request to the HTTP proxy, 1 unit of bytes each | `TypeOK`, `ChargedInFull`, `TunnelsEnd`, `ShutdownCompletes` |
| `rate_limiter` | burst 3, cost 2, sweep every 3, TTL 4, wait 1, 10 ticks | `TypeOK`, `RateBounded`, `RefusalJustified` |
| `login_guard` | 2 failures, window 3, lock-out 4, 2 in flight, wait 1, 8 ticks | `TypeOK`, `GuessesBounded`, `RefusalJustified` |
| `admin_sessions` | 2 administrators, 2 sessions, 2 requests, TTL 2 s, wait 1 s, 6 s | `TypeOK`, `UsedSessionsLast`, `SessionsEnd`, `IdleSessionsEnd` |
| `admin_roles` | 3 administrators, 1 session, 2 requests, 3 s | `OnlySupersManage` |
| `smb_provisioning` | 1 user, 3 requests, 2 passwords | `TypeOK`, `ProvisionedIffEnabled`, `AccountInStep` |
| `smb_cleanup` | the same | `DirectoryCleanedUp`: **violated** |
| `credentials` | 1 user, 2 logins; 2 administrators, 2 changes; 3 passwords, one of which bcrypt refuses | `TypeOK`, `PasswordInForce`, `AdminPasswordInForce`, `HashedForGood` |
| `password_upgrade` | the same, no statement failing | `UpgradedByLogin`: **violated** |
| `admin_console` | 2 tabs, 3 clicks, 4 names, pages of 2, extensions of 1 day of 2 s, wait 1 s, 1 s | `TypeOK`, `ExtensionsKept`, `ExportNearlyComplete`, `NoSilentGap` |

What the passing runs show:

- `GrantedDeviceIsCounted`: an address admitted less than `Window - MaxWait` seconds
  ago still has its row, whatever transactions with older clocks did since. Without the
  allowance of `MaxWait` it is false: a stale reading puts `last_seen` back.
- `DevicesWithinLimit`: when an address that was not counted is admitted, the
  addresses admitted lately are at most `max_devices`. It says nothing of tunnels older
  than the window, which the code does not count.
- `QuotaOvershootBounded`: usage exceeds the largest quota since the counter was
  zero by at most one transfer per connection slot, through top-ups, resets, deletion and
  re-creation of the name.
- `GrantsAreEntitled`: each grant is of a row that is, at the grant, enabled, with
  that password and quota left, and not expired longer than `MaxWait` ago.
- `ImplementsLedger`: see section 2; `proxy_devices` checks it where devices, limits and
  kicks matter, `proxy_quota` where quotas, charges and crashes do.
- `ChargedInFull`: a tunnel that is over has been charged the bytes of both directions, a
  forwarded request those of its response, unless the store refused or was closed, and when `main` closes the store this holds for every SOCKS5
  connection there was. It holds for no HTTP request open at that moment: those
  are not waited for and their bytes are lost.
- `TunnelsEnd`: once both peers have closed, a tunnel ends, and once the client has, a
  forward (or the process). For a tunnel it is false with one peer gone: without
  deadlines the tunnel then stays as long as the other is silent. For a forward it is false
  with the target gone silent: `RoundTrip` waits as long as the client does.
- `ShutdownCompletes`: a shutdown that hangs hangs on a SOCKS5 tunnel one of whose peers
  stays. Without that exception it is false.
- `RateBounded`, and `RefusalJustified` of `RateLimiter`: no interval has more than the burst, the
  refill, what the delay at the mutex adds, and what a bucket that was forgotten still lacked,
  once for each time the interval holds `TTL - MaxWait + 1` ticks; no refusal without an interval
  that was full. The third term is real: `ADMIN_RATE_LIMIT_BURST` may be 65535 at one request a
  second, which takes eighteen hours to refill, and the sweep forgets a bucket after ten minutes. It is zero
  when the burst refills within that time. The bound is tight: with less forgiven, or a longer
  retention, the run finds a violation.
- `GuessesBounded`: in an interval shorter than the lock-out and no longer than the counting window, fewer than
  `MaxFails + MaxInFlight` passwords are verified. The term `MaxInFlight` is
  needed: attempts that passed the check before the lock-out was set go through.
- `RefusalJustified` of `LoginGuard`: a lock-out follows from `MaxFails` failures, none
  further than the window from the next, the last within the lock-out time. The window is
  a gap between failures, not an interval that holds them all.
- `SessionsEnd`, `UsedSessionsLast`, `IdleSessionsEnd`: see the inventory; each up to the
  time a request lasts.
- `OnlySupersManage`: administrators change only at a start or by a request whose
  actor was an enabled super while it lasted.
- `ProvisionedIffEnabled`: without overlap or a half-done request, directory and share
  are there if and only if the flag is on, and an undisturbed disable repairs whatever happened before.
  Half-done is also the deletion of an enabled user whose row could not be read: it reports success.
- `AccountInStep`: the Samba account of an enabled user has the row's password, unless the
  requests that gave it overlapped or broke off, `smbpasswd` failed unseen, or the user was
  enabled after the password was given: each exception is necessary.
- `AdminPasswordInForce`: an administrator's password is the last one given by somebody
  entitled to; a change verified against an older password may overwrite only a
  password given while it was between its statements.
- `PasswordInForce`, `HashedForGood`: the password in force is the last one given
  unless it was given in the middle of an upgrade; no write turns a hash back into plaintext.

- `ExtensionsKept`: a user keeps what it was created with and the days of every
  extension that no other one of the same user overlapped, with lost answers and old clocks. Two that overlap
  lose one. The other exception is an extension that had read the row of the name's last user
  before it was deleted and created anew: it overwrites the new expiry, and what the new user was
  promised shrinks to what it writes, if that is less. The code does lose that much.
- `ExportNearlyComplete`: an export misses no more of the users that were there all the
  time than there were users coming and going meanwhile, and repeats no more.
- `NoSilentGap`: a user that was to get days is never left permanent, and one that was to be disabled never
  left enabled, without the page still being at it, having counted a failure or showing it. Two exceptions,
  both real: the page was closed or reloaded in the midst, or what it showed was replaced. After
  either a permanent or enabled user may remain with nothing shown.

What the violated ones show (also under `findings`):

- `smb_cleanup`. README.md:122 says a disable or a deletion cleans up the directory.
  The deletion does so only if `smb_enabled` is 1 in the row it reads (api.go:550), and an
  enable makes the directory before it sets the flag: after an enable that failed
  half-way, deleting the user reports success and leaves the directory. So does, of any user with a
  directory, a deletion whose read of the row fails.
- `password_upgrade`. README.md:344 says a plaintext password is hashed by the
  first successful login. `AuthenticateUserPassword` ignores a failing `hashPassword`
  (store.go:1049): with a password of more than 72 bytes WebDAV logins succeed
  and the plaintext stays.

**Why the bounds are enough.** Every race here is between two parties: two
connections, two requests, two attempts, or one of them and the administrator; there are
two of each (three in SMB, where one leaves a trace and two others meet it). Time runs past each window and, where a second one matters, past
that: five seconds for a window of two and a wait of one, ten ticks for a TTL of four and
a refill of six, so that an interval holds two forgotten buckets. Users, keys and names do not interact except through a purge or
a sweep, which one key and the sweeps others start (`LoginSweep`, `LimiterSweep`) cover;
where another user's `Authorize` purges with a stale cutoff, another address of
the same user does the same. The invariants and the properties of steps are
proved for any size (section 4). Four names and pages of two make an export of two full pages or one full and one
short; a click more than tabs lets one tab act again on what the other left. Deadlock
checks are on: in every model time, a restart or the administrator can always go on;
except in `admin_console`, where the bounds on time and clicks bring everything to rest.

**Fairness.** Only `ProxyServers` assumes any, since only there something must
happen: weak fairness of what the goroutines of each connection can do by themselves (`ConnStep`),
and of `main` and the servers (`ServerStep`). The Go scheduler runs every goroutine that
can go on; setting up a connection has deadlines (30 s on the SOCKS5 handshake,
`DialTimeout` on both). Nothing is assumed of the peers, of the signal or of `Copy`, a write waiting for
its peer to read. All other properties are invariants or properties of steps.

**Symmetry.** Where a cfg says so, connections, addresses, requests, sessions, logins,
password changes, tabs and the passwords of `SmbProvisioning` are interchangeable: no model chooses one. `proxy_servers`, the only run with liveness,
uses none.

## 4. Proofs

All proofs are checked by `tlapm` 1.4.5 (Z3, Zenon, LS4).

`ProxyAccessProofs`, from `StoreAssumption` and `AccessAssumption` (a positive
window; finite sets of addresses and connections; inputs are numbers):

- `TypeCorrect`: `Spec => []TypeOK`. Inductive with `ConnInv`, which says what a
  waiting connection knows: its reading is at most `MaxWait` old and its cutoff at most
  the present less the window.
- `DevicesStayCounted`: `Spec => []GrantedDeviceIsCounted`. Not inductive: the row
  survives a purge only because its `last_seen`, which a stale transaction may have put
  back, lags the grant by at most `MaxWait`. `DeviceInv` adds this.
- `DeviceLimitHolds`: `Spec => DevicesWithinLimit`. From `DeviceInv`, recent
  addresses are among the rows the transaction counts after its purge; adding one address to fewer than the
  limit gives at most the limit.
- `QuotaBound`: `Spec => []QuotaOvershootBounded`. `QuotaInv` charges `MaxBytes` in
  advance for every connection that holds a grant; a grant needs `used < quota`, a charge
  frees what was reserved.
- `OnlyEntitled`: `Spec => GrantsAreEntitled`, from `ConnInv`.
- `Refinement`: `Spec => ImplementsLedger`, with `RefinementAssumption` besides. Every step of `ProxyAccess` maps to one of the
  ledger or a stutter, one lemma for each action. It needs no more than `TypeOK` and
  `ConnInv`: a waiting connection has a user, an address and a cutoff, so that the purge of
  `Grant` only takes devices away and its count is of the devices that remain. A charge for a
  user that was deleted is a release.

`RateLimiterProofs`, from `LimiterAssumption`:

- `RateIsBounded`: `Spec => []RateBounded`, and `RefusalsAreJustified`:
  `Spec => RefusalJustified`. The inductive invariant relates tokens and history: what
  was spent since t and what is left never exceed what the bucket could hold and gain (`Solvent`), for
  some t they are all of it (`Exact`), and a client without a bucket has been idle so long that a
  full one is its due (`Idle`), but for `Forgiven`, which the bound then counts. Nothing is assumed of
  burst and rate; the one assumption on times is `MaxWait <= TTL`: a request waits less than ten
  minutes for the mutex.
- `TypeCorrect`: `Spec => []TypeOK`, from the same invariant.

`LoginGuardProofs`, from `GuardAssumption` (threshold, window, lock-out and time are positive). The inductive invariant (`KeyInv`) relates each
key's entry to its history:

- `LockOutWorks`: `Spec => []GuessesBounded`. An attempt let through has failed or is in flight
  (`Answered`); those of a recent interval are counted in the entry or in flight, or the key is
  locked (`Accounted`); from the time a lock-out is set nobody is let through (`LockedOut`).
  A sweep may forget an entry only because a failure in a recent interval would be known to it
  (`LastKnown`).
- `RefusalsAreDeserved`: `Spec => RefusalJustified`. The failures an entry counts are a run without a
  gap longer than the window (`CountedRun`), and so were those that set a lock-out (`Deserved`).
- `TypeCorrect`: `Spec => []TypeOK`, an entry counting always fewer than `MaxFails` included.

`AdminSessionsProofs`, from `SessionAssumption` (finitely many sessions; the bootstrap
accounts are administrators). The inductive invariant says what a request
between two statements knows (`RequestOK`: when it began, and that an actor it takes for a super
was one since then), that a session's expiry is `TTL` after its last use, give or take the
`MaxWait` that request lasted (`SessionOK`), and that superAt is the last time an
administrator was an enabled super (`SuperOK`):

- `UsedSessionsKept`: `Spec => []UsedSessionsLast`; `EndedForGood`: `Spec => SessionsEnd`;
  `IdleForGood`: `Spec => IdleSessionsEnd`; `ManagedBySupers`: `Spec => OnlySupersManage`;
  `TypeCorrect`: `Spec => []TypeOK`.

`ProxyServersProofs`, from `ServersAssumption` (the two servers' connections are
disjoint, the bound is a number):

- `UsageIsCharged`: `Spec => []ChargedInFull`. That the store is closed says nothing by itself of the
  tunnels; `IInv` adds the chain that leads there: closed only when the SOCKS5 server has
  returned, returned only when its connections are settled, and a server that never listened
  has accepted none (`InOrder`). `Booked` says what a connection in each phase has been charged,
  `Bounded` that a byte is pending or copied and not both, `Idle` that an exited process carries nothing.
- `TypeCorrect`: `Spec => []TypeOK`, from the same invariant.

`CredentialsProofs`, from `CredentialAssumption`:

- `TypeCorrect`, `UserPasswordHolds`, `AdminPasswordHolds`: `Spec => []` of `TypeOK`,
  `PasswordInForce`, `AdminPasswordInForce`. The invariant says what a login on its way to write
  a hash knows: what it read is what was last given, or something was given since (`raced`);
  and the same of a change of an administrator's password (`overtaken`).
- `NeverPlaintextAgain`: `Spec => HashedForGood`, by cases on the writes.

`SmbProvisioningProofs`, from `SmbAssumption` (`Null` is neither a request nor a password):

- `AccountFollows`: `Spec => []AccountInStep`, for any number of overlapping requests.
  `Owing` adds that a user whose row has been given a password and whose account has not
  counts as out of step; `Latest`, that a request which is `alone` still finds in the row the
  password it gave; `Apart`, that of two requests on one user with a password to give neither is
  `alone`. The last is what makes `Latest` survive another's write, and `Begin` establishes it.
- `TypeCorrect`: `Spec => []TypeOK`, from the same invariant and `InSequence`, the steps each
  handler goes through.
- `DirectoryFollowsFlag`: `Spec => []ProvisionedIffEnabled`. `ShareInv` adds what each handler has
  done with flag, directory and share by each of its steps, on an undisturbed user, and what one that is
  alone has removed whatever it found (`InOrder`), a deletion whose read failed having removed nothing (`ReadFailureFits`), and that of two handlers on one user
  neither is alone and the user is marked as disturbed (`Marked`).

`AdminConsoleProofs`, from `StoreAssumption` and `ConsoleAssumption` (a click's blocks are not
empty, each about one user; the existing database lists no user twice; the page asks for no
more than the largest limit):

- `NoExtensionLost`: `Spec => []ExtensionsKept`. Inductive with `ReadsCurrent`: what an
  extension that is not overtaken has read is at least what was promised, since a promise is raised only by an
  extension that is alone, and a creation overtakes those under way.
- `TypeCorrect`: `Spec => []TypeOK`. The listing stays a permutation of the table's users: an
  insertion anywhere and a removal keep it without repeats, whose number is then that of the
  rows.
- `GapsAreShown`: `Spec => []NoSilentGap`. What a new user is still owed (days, being disabled) is done, or a
  failure is counted or shown, or a request for it is in the block the page is at (`GapInv`). A block is about one user,
  so a block that is dropped leaves unfinished only what its own failure shows.
- `ExportsAreNearlyComplete`: `Spec => []ExportNearlyComplete`, which speaks only of finished exports, unfiltered or filtered by status. The
  invariant (`Tracked`) speaks of the ranks of users among the matching rows. An export at offset o has
  lost the users of rank at most o that it has not seen (`Missed`), and will repeat those of a
  higher rank that it has (`Ahead`). An arrival moves at most one row past o, a departure at most one back
  among the first o (`OneMovesOn`, `OneMovesBack`), so some number n of arrivals among
  the changes bounds what is repeated and the rest what is missed; a page moves rows from `Ahead` to the repeated ones, one
  for one. Between the count and the page n also bounds how much the table has grown past
  `total`, hence what the loop leaves unread when it stops at `total`.

Every invariant the runs check, and every property of steps, is stated by one of these theorems. Only
model-checked are the two liveness properties of `ProxyServers`, `TunnelsEnd` and
`ShutdownCompletes`: TLAPS cannot prove liveness under fairness or reason about
ENABLED. The two violated properties are counterexamples and need no proof. Recursive operators and induction over data
are out of reach of the installed provers too, and no module has any; where an argument needs to count (a
listing, a page, the rows found), it goes by bijections with intervals and the library's theorems on
cardinalities.

## 5. Not modelled, and the plan

Left out for good: layout and forms of the UI, the audit log's text (nothing reads it to
decide), tags and speed limits (no decision reads them), the listing's filters by expiry, which move with the clock, by
name and by tag (an export under one of them is in no property), WebDAV's file operations (a
library), the shell scripts' inside (the router's), configuration parsing (its values are
constants), the CSRF check (two values of one request). `StaticAuthenticator` compares with
a constant table.

The modules were ordered by what the system is for: the proxies' access decision (done,
proved, and shown to implement its abstract specification), their tunnels, forwards and
the shutdown (done, safety proved), the guards of the admin API (done, proved), passwords
(done, proved), sessions and roles (done, proved), SMB (done, proved), the page's
operations over several requests (done, proved). Next, in order:

1. The bytes left in the buffer of a hijacked connection (http.go:122).
2. Abstract specifications of the components besides the proxies, with refinements like
   `ImplementsLedger`: what the lock-out and the sessions promise without clocks of requests.
3. The security alerts' snapshot and cooldown (ui.go:1283-1313), the SOCKS5 handshake,
   `ResolveClientIP`: bounded checks against reference definitions.

## 6. Running

    tlc -workers 2 -config MCProxyDevices.cfg MCProxyAccess
    tlapm ProxyAccessProofs.tla

Each row of section 3 is one configuration; `PROJECT.json` names them. The longest
runs take about two minutes.
