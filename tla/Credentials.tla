---------------------------- MODULE Credentials ----------------------------
(***************************************************************************)
(* The passwords of proxy users and of administrators                      *)
(* (internal/control/store.go).                                            *)
(*                                                                         *)
(* Users.  An old version stored them in plaintext; a login with the right password       *)
(* replaces the plaintext by a hash.  Authorize, the proxies' login, does  *)
(* so in its transaction.  AuthenticateUserPassword, the login of WebDAV,  *)
(* reads the row in one statement and writes the hash in another, and      *)
(* ignores its failure; meanwhile administrators set passwords and delete  *)
(* and create users.  bcrypt refuses a password of more than 72 bytes.     *)
(*                                                                         *)
(* Administrators.  Their passwords are hashes.  An administrator changes  *)
(* the own one, verified in one statement and written in another; a super  *)
(* sets any; every start sets those of the bootstrap accounts again.       *)
(***************************************************************************)
EXTENDS Integers

CONSTANTS
    Users, Admins, Secrets, Logins, Changes, Null,
    BootPasswords,  \* bootstrap administrators -> their configured passwords
    Long,       \* the secrets bcrypt refuses
    UpdateFails \* bound: whether the UPDATE of a login may fail

VARIABLES
    stored,     \* the user's password column, Null without a row
    logins,     \* WebDAV logins between their two statements
    installed,  \* history: the password last given to the user
    raced,      \* history: it was given while a login was about to write a hash
    entered,    \* history: a login with the password now stored has succeeded
    adminHash,  \* the password an administrator's hash is of, Null without a row
    changes,    \* ChangeAdminPassword between its two statements
    given,      \* history: the password last given by a super, by a start, or
                \*          by an administrator who knew the one given before
    overtaken   \* history: it was given while a change was on its way

userVars  == <<stored, logins, installed, raced, entered>>
adminVars == <<adminHash, changes, given, overtaken>>
vars == <<userVars, adminVars>>

Password == [hashed : BOOLEAN, secret : Secrets]
Login == [user : Users, secret : Secrets, read : Password, needsUpgrade : BOOLEAN]

Change == [admin : Admins, old : Secrets, new : Secrets]

ASSUME CredentialAssumption ==
    /\ Long \subseteq Secrets /\ UpdateFails \in BOOLEAN
    /\ DOMAIN BootPasswords \subseteq Admins
    /\ \A a \in DOMAIN BootPasswords : BootPasswords[a] \in Secrets \ Long
    /\ Null \notin Password \cup Login \cup Secrets \cup Change

TypeOK ==
    /\ stored \in [Users -> Password \cup {Null}]
    /\ logins \in [Logins -> Login \cup {Null}]
    /\ installed \in [Users -> Secrets \cup {Null}]
    /\ raced \in [Users -> BOOLEAN]
    /\ entered \in [Users -> BOOLEAN]
    /\ adminHash \in [Admins -> (Secrets \ Long) \cup {Null}]
    /\ changes \in [Changes -> Change \cup {Null}]
    /\ given \in [Admins -> Secrets \cup {Null}]
    /\ overtaken \in [Admins -> BOOLEAN]

Hashed(s) == [hashed |-> TRUE, secret |-> s]
Plaintext(s) == [hashed |-> FALSE, secret |-> s]

\* EnsureBootstrapAdmins: at every start, over whatever the row holds.
Bootstrapped(table) ==
    [a \in Admins |-> IF a \in DOMAIN BootPasswords THEN BootPasswords[a] ELSE table[a]]

\* Users of an old version, of any password, or none.
Init ==
    /\ stored \in [Users -> {Plaintext(s) : s \in Secrets} \cup {Null}]
    /\ logins = [l \in Logins |-> Null]
    /\ installed = [u \in Users |-> IF stored[u] = Null THEN Null ELSE stored[u].secret]
    /\ raced = [u \in Users |-> FALSE]
    /\ entered = [u \in Users |-> FALSE]
    /\ adminHash = Bootstrapped([a \in Admins |-> Null])
    /\ changes = [k \in Changes |-> Null]
    /\ given = adminHash
    /\ overtaken = [a \in Admins |-> FALSE]

-----------------------------------------------------------------------------

Verifies(u, s) == stored[u] # Null /\ stored[u].secret = s

\* (Slip: every login writes a new hash.)
NeedsUpgrade_Slip(u) == TRUE
NeedsUpgrade(u) == ~stored[u].hashed

\* A login that read the user's password in plaintext has not written the hash yet.
Upgrading(u) ==
    \E l \in Logins :
        /\ logins[l] # Null /\ logins[l].user = u
        /\ ~logins[l].read.hashed /\ logins[l].needsUpgrade

\* Authorize: where the hash cannot be made, the login fails.
Authorize(u, s) ==
    /\ Verifies(u, s)
    /\ NeedsUpgrade(u) => s \notin Long
    /\ stored' = [stored EXCEPT ![u] = Hashed(s)]
    /\ entered' = [entered EXCEPT ![u] = TRUE]
    /\ UNCHANGED <<logins, installed, raced>>

\* AuthenticateUserPassword: the SELECT and the comparison.
Authenticate(l, u, s) ==
    /\ logins[l] = Null
    /\ Verifies(u, s)
    /\ logins' = [logins EXCEPT ![l] =
            [user |-> u, secret |-> s, read |-> stored[u], needsUpgrade |-> NeedsUpgrade(u)]]
    /\ UNCHANGED <<stored, installed, raced, entered>>

\* The row after the UPDATE of the password column.
\* (Slips: the password written instead of its hash; an empty one written.)
Written_Slip(u, s) == IF stored[u] = Null THEN Null ELSE Plaintext(s)
Written_TypeSlip(u, s) == Hashed(Null)
Written(u, s) == IF stored[u] = Null THEN Null ELSE Hashed(s)

\* The UPDATE, which goes by the name alone.
Upgrade(l) ==
    LET u == logins[l].user IN
    /\ logins[l] # Null /\ logins[l].needsUpgrade
    /\ logins[l].secret \notin Long
    /\ stored' = [stored EXCEPT ![u] = Written(u, logins[l].secret)]
    /\ logins' = [logins EXCEPT ![l].needsUpgrade = FALSE]
    /\ UNCHANGED <<installed, raced, entered>>

\* The hash could not be made or written: the login goes on.
UpgradeFails(l) ==
    /\ logins[l] # Null /\ logins[l].needsUpgrade
    /\ UpdateFails \/ logins[l].secret \in Long
    /\ logins' = [logins EXCEPT ![l].needsUpgrade = FALSE]
    /\ UNCHANGED <<stored, installed, raced, entered>>

\* The answer, which is no if the user is disabled or expired.
Answer(l, yes) ==
    LET u == logins[l].user IN
    /\ logins[l] # Null /\ ~logins[l].needsUpgrade
    /\ entered' = [entered EXCEPT ![u] = @ \/ (yes /\ Verifies(u, logins[l].secret))]
    /\ logins' = [logins EXCEPT ![l] = Null]
    /\ UNCHANGED <<stored, installed, raced>>

Install(u, s) ==
    /\ s \notin Long
    /\ stored' = [stored EXCEPT ![u] = Hashed(s)]
    /\ installed' = [installed EXCEPT ![u] = s]
    /\ raced' = [raced EXCEPT ![u] = Upgrading(u)]
    /\ entered' = [entered EXCEPT ![u] = FALSE]
    /\ UNCHANGED logins

CreateUser(u, s) == stored[u] = Null /\ Install(u, s)

SetUserPassword(u, s) == stored[u] # Null /\ Install(u, s)

DeleteUser(u) ==
    /\ stored[u] # Null
    /\ stored' = [stored EXCEPT ![u] = Null]
    /\ installed' = [installed EXCEPT ![u] = Null]
    /\ entered' = [entered EXCEPT ![u] = FALSE]
    /\ UNCHANGED <<logins, raced>>

UserStep ==
    \/ \E u \in Users, s \in Secrets :
          \/ Authorize(u, s) \/ CreateUser(u, s) \/ SetUserPassword(u, s)
          \/ \E l \in Logins : Authenticate(l, u, s)
    \/ \E l \in Logins : Upgrade(l) \/ UpgradeFails(l)
    \/ \E l \in Logins, yes \in BOOLEAN : Answer(l, yes)
    \/ \E u \in Users : DeleteUser(u)

-----------------------------------------------------------------------------

\* The changes of a's password that have verified the old one.
Changing(a) == {k \in Changes : changes[k] # Null /\ changes[k].admin = a}

\* (Slip: the session is proof enough.)
VerifiesOld_Slip(a, old) == adminHash[a] # Null
VerifiesOld(a, old) == adminHash[a] # Null /\ adminHash[a] = old

\* ChangeAdminPassword: getAdminCredentials and the comparison.
VerifyOld(k, a, old, new) ==
    /\ changes[k] = Null
    /\ VerifiesOld(a, old)
    /\ changes' = [changes EXCEPT ![k] = [admin |-> a, old |-> old, new |-> new]]
    /\ UNCHANGED <<adminHash, given, overtaken>>

\* Then SetAdminPassword, which looks at nothing but the name.
WriteNew(k) ==
    LET a == changes[k].admin
        new == changes[k].new
        entitled == overtaken[a] \/ changes[k].old = given[a] IN
    /\ changes[k] # Null
    /\ new \notin Long
    /\ adminHash' = [adminHash EXCEPT ![a] = new]
    /\ given' = [given EXCEPT ![a] = IF entitled THEN new ELSE @]
    /\ overtaken' = [overtaken EXCEPT ![a] = Changing(a) # {k}]
    /\ changes' = [changes EXCEPT ![k] = Null]

\* The new password cannot be hashed, or the request ends before the UPDATE.
ChangeFails(k) ==
    /\ changes[k] # Null
    /\ changes' = [changes EXCEPT ![k] = Null]
    /\ UNCHANGED <<adminHash, given, overtaken>>

Give(a, s) ==
    /\ s \notin Long
    /\ adminHash' = [adminHash EXCEPT ![a] = s]
    /\ given' = [given EXCEPT ![a] = s]
    /\ overtaken' = [overtaken EXCEPT ![a] = Changing(a) # {}]
    /\ UNCHANGED changes

CreateAdmin(a, s) == adminHash[a] = Null /\ Give(a, s)

SetAdminPassword(a, s) == adminHash[a] # Null /\ Give(a, s)

AdminStep ==
    \/ \E a \in Admins, s \in Secrets :
          \/ CreateAdmin(a, s) \/ SetAdminPassword(a, s)
          \/ \E k \in Changes, new \in Secrets : VerifyOld(k, a, s, new)
    \/ \E k \in Changes : WriteNew(k) \/ ChangeFails(k)

-----------------------------------------------------------------------------

\* Whatever was between two statements is gone with the process.
Restart ==
    /\ logins' = [l \in Logins |-> Null]
    /\ UNCHANGED <<stored, installed, raced, entered>>
    /\ adminHash' = Bootstrapped(adminHash)
    /\ changes' = [k \in Changes |-> Null]
    /\ given' = Bootstrapped(given)
    /\ overtaken' = [a \in Admins |-> overtaken[a] /\ a \notin DOMAIN BootPasswords]

Next ==
    \/ UserStep /\ UNCHANGED adminVars
    \/ AdminStep /\ UNCHANGED userVars
    \/ Restart

Spec == Init /\ [][Next]_vars

-----------------------------------------------------------------------------

(* The password a user has is the one last given to it, by whatever number *)
(* of logins before, during and after; the only exception is a password    *)
(* given while a WebDAV login with the old plaintext one was on its way to *)
(* write the hash of that (store.go:1040-1053).                            *)
PasswordInForce ==
    \A u \in Users :
        stored[u] # Null /\ ~raced[u] => stored[u].secret = installed[u]

(* The password of an administrator is the one last given by a super, by   *)
(* the configuration at a start, or by its owner, who knew the one in      *)
(* force; the only exception is a password given while a change that had   *)
(* verified an older one was on its way to overwrite it                    *)
(* (store.go:489-499, api.go:313-336).                                     *)
AdminPasswordInForce ==
    \A a \in Admins : ~overtaken[a] => adminHash[a] = given[a]

(* No login, late ones included, puts a password back into plaintext.      *)
HashedForGood ==
    [][\A u \in Users :
        stored[u] # Null /\ stored[u].hashed /\ stored'[u] # Null
            => stored'[u].hashed]_vars

(* README: an old plaintext password is upgraded to a hash by the first    *)
(* successful login.                                                       *)
UpgradedByLogin ==
    \A u \in Users : entered[u] => stored[u].hashed

=============================================================================
