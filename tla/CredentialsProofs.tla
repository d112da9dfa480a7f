-------------------------- MODULE CredentialsProofs --------------------------
(***************************************************************************)
(* Theorems about Credentials, for every number of users, administrators,  *)
(* passwords, logins and changes under way.                                *)
(***************************************************************************)
EXTENDS Credentials, TLAPS

(* A login that is to write a hash read a plaintext password; the hash is  *)
(* of the password in force, unless that was given in the meantime.        *)
LoginsCurrent ==
    \A l \in Logins : logins[l] # Null /\ logins[l].needsUpgrade =>
      LET u == logins[l].user IN
      /\ ~logins[l].read.hashed
      /\ stored[u] # Null /\ ~raced[u] => logins[l].secret = installed[u]

(* A change that has verified the old password verified the one in force,  *)
(* unless that was given in the meantime.                                  *)
ChangesCurrent ==
    \A k \in Changes : changes[k] # Null =>
      (~overtaken[changes[k].admin] => changes[k].old = given[changes[k].admin])

UserTyped ==
    /\ stored \in [Users -> Password \cup {Null}]
    /\ logins \in [Logins -> Login \cup {Null}]
    /\ installed \in [Users -> Secrets \cup {Null}]
    /\ raced \in [Users -> BOOLEAN]
    /\ entered \in [Users -> BOOLEAN]

AdminTyped ==
    /\ adminHash \in [Admins -> (Secrets \ Long) \cup {Null}]
    /\ changes \in [Changes -> Change \cup {Null}]
    /\ given \in [Admins -> Secrets \cup {Null}]
    /\ overtaken \in [Admins -> BOOLEAN]

UserInv  == UserTyped /\ PasswordInForce /\ LoginsCurrent
AdminInv == AdminTyped /\ AdminPasswordInForce /\ ChangesCurrent

-----------------------------------------------------------------------------
(* Users.                                                                  *)

(* Null is no password.                                                    *)
LEMMA NullApart == Null \notin Password
BY CredentialAssumption DEF CredentialAssumption

(* A hash is a password, of its secret.                                    *)
LEMMA HashedType ==
    ASSUME NEW s \in Secrets
    PROVE  Hashed(s) \in Password /\ Hashed(s).secret = s /\ Hashed(s) # Null
<1>1. Hashed(s) \in Password
  BY Zenon DEF Hashed, Password
<1>2. Hashed(s).secret = s
  BY DEF Hashed
<1>3. QED
  BY <1>1, <1>2, NullApart, Zenon

(* So is a plaintext.                                                      *)
LEMMA PlaintextType ==
    ASSUME NEW s \in Secrets
    PROVE  Plaintext(s) \in Password /\ Plaintext(s).secret = s
<1>1. Plaintext(s) \in Password
  BY Zenon DEF Plaintext, Password
<1>2. Plaintext(s).secret = s
  BY DEF Plaintext
<1>3. QED
  BY <1>1, <1>2, Zenon

(* Every initial state satisfies the users' invariant.                     *)
LEMMA InitUser == Init => UserInv
<1> SUFFICES ASSUME Init PROVE UserInv
  OBVIOUS
<1>1. \A s \in Secrets : Plaintext(s) \in Password /\ Plaintext(s).secret = s
  BY PlaintextType
<1>2. UserTyped
  <2>1. stored \in [Users -> Password \cup {Null}]
    BY <1>1 DEF Init
  <2>2. installed \in [Users -> Secrets \cup {Null}]
    BY <1>1 DEF Init
  <2>3. QED
    BY <2>1, <2>2 DEF Init, UserTyped
<1>3. PasswordInForce /\ LoginsCurrent
  BY DEF Init, PasswordInForce, LoginsCurrent
<1>4. QED
  BY <1>2, <1>3 DEF UserInv

(* A login of the proxies writes the hash of what is in force.             *)
LEMMA AuthorizeInv ==
    ASSUME UserInv, NEW u \in Users, NEW s \in Secrets, Authorize(u, s)
    PROVE  UserInv'
<1>1. stored[u] # Null /\ stored[u] \in Password /\ stored[u].secret = s
  BY DEF Authorize, Verifies, UserInv, UserTyped
<1>2. Hashed(s) \in Password /\ Hashed(s).secret = s /\ Hashed(s) # Null
  BY HashedType
<1>3. UserTyped'
  BY <1>2 DEF Authorize, UserInv, UserTyped
<1>4. PasswordInForce'
  BY <1>1, <1>2 DEF Authorize, UserInv, UserTyped, PasswordInForce
<1>5. LoginsCurrent'
  BY <1>1 DEF Authorize, UserInv, UserTyped, LoginsCurrent, Login, Verifies
<1>6. QED
  BY <1>3, <1>4, <1>5 DEF UserInv

(* The first statement of a WebDAV login.                                  *)
LEMMA AuthenticateInv ==
    ASSUME UserInv, NEW u \in Users, NEW s \in Secrets, NEW l \in Logins,
           Authenticate(l, u, s)
    PROVE  UserInv'
<1>1. stored[u] # Null /\ stored[u] \in Password /\ stored[u].secret = s
  BY DEF Authenticate, Verifies, UserInv, UserTyped
<1> DEFINE e == [user |-> u, secret |-> s, read |-> stored[u],
                 needsUpgrade |-> NeedsUpgrade(u)]
<1>2. NeedsUpgrade(u) \in BOOLEAN
  BY DEF NeedsUpgrade
<1>3. e \in Login
  BY <1>1, <1>2 DEF Login
<1>4. /\ e.user = u /\ e.secret = s
      /\ e.needsUpgrade => ~e.read.hashed
  BY DEF NeedsUpgrade
<1>5. logins' = [logins EXCEPT ![l] = e]
  BY DEF Authenticate
<1>6. UNCHANGED <<stored, installed, raced, entered>>
  BY DEF Authenticate
<1> HIDE DEF e
<1>7. UserTyped'
  BY <1>3, <1>5, <1>6 DEF UserInv, UserTyped
<1>8. PasswordInForce'
  BY <1>6 DEF UserInv, PasswordInForce
<1>9. LoginsCurrent'
  BY <1>1, <1>4, <1>5, <1>6 DEF UserInv, UserTyped, LoginsCurrent, PasswordInForce
<1>10. QED
  BY <1>7, <1>8, <1>9 DEF UserInv

(* The second statement writes the hash of what is in force, or the        *)
(* password was given while the login was under way.                       *)
LEMMA UpgradeInv ==
    ASSUME UserInv, NEW l \in Logins, Upgrade(l)
    PROVE  UserInv'
<1> DEFINE e == logins[l]
<1> DEFINE u == e.user
<1>1. e \in Login /\ u \in Users /\ e.secret \in Secrets /\ e.needsUpgrade
  BY DEF Upgrade, UserInv, UserTyped, Login
<1>2. /\ stored' = [stored EXCEPT ![u] = Written(u, e.secret)]
      /\ logins' = [logins EXCEPT ![l].needsUpgrade = FALSE]
      /\ UNCHANGED <<installed, raced, entered>>
  BY DEF Upgrade
<1>3. stored[u] # Null /\ ~raced[u] => e.secret = installed[u]
  BY <1>1 DEF Upgrade, UserInv, LoginsCurrent
<1>4. /\ Hashed(e.secret) \in Password
      /\ Hashed(e.secret).secret = e.secret
      /\ Hashed(e.secret) # Null
  BY <1>1, HashedType
<1>5. [e EXCEPT !.needsUpgrade = FALSE] \in Login
  BY <1>1 DEF Login
<1> HIDE DEF u
<1>6. UserTyped'
  BY <1>1, <1>2, <1>4, <1>5 DEF UserInv, UserTyped, Written
<1>7. PasswordInForce'
  BY <1>1, <1>2, <1>3, <1>4 DEF UserInv, UserTyped, PasswordInForce, Written
<1>8. LoginsCurrent'
  BY <1>1, <1>2, <1>4 DEF UserInv, UserTyped, LoginsCurrent, Login, Written
<1>9. QED
  BY <1>6, <1>7, <1>8 DEF UserInv

(* The statements of a login that write no password.                       *)
LEMMA LoginEndsInv ==
    ASSUME UserInv, NEW l \in Logins,
           UpgradeFails(l) \/ \E yes \in BOOLEAN : Answer(l, yes)
    PROVE  UserInv'
<1>1. UNCHANGED <<stored, installed, raced>>
  BY DEF UpgradeFails, Answer
<1>2. logins[l] \in Login /\ [logins[l] EXCEPT !.needsUpgrade = FALSE] \in Login
  <2>1. logins[l] # Null
    BY DEF UpgradeFails, Answer
  <2>2. logins[l] \in Login
    BY <2>1 DEF UserInv, UserTyped
  <2>3. QED
    BY ONLY <2>2 DEF Login
<1>3. \/ logins' = [logins EXCEPT ![l].needsUpgrade = FALSE]
      \/ logins' = [logins EXCEPT ![l] = Null]
  BY DEF UpgradeFails, Answer
<1>4. entered' \in [Users -> BOOLEAN]
  <2>1. CASE UpgradeFails(l)
    BY <2>1 DEF UpgradeFails, UserInv, UserTyped
  <2>2. ASSUME NEW yes \in BOOLEAN, Answer(l, yes)
        PROVE  entered' \in [Users -> BOOLEAN]
    <3>1. (entered[logins[l].user] \/ (yes /\ Verifies(logins[l].user, logins[l].secret)))
            \in BOOLEAN
      OBVIOUS
    <3>2. QED
      BY <2>2, <3>1 DEF Answer, UserInv, UserTyped
  <2>3. QED
    BY <2>1, <2>2
<1>5. UserTyped'
  BY <1>1, <1>2, <1>3, <1>4 DEF UserInv, UserTyped
<1>6. PasswordInForce'
  BY <1>1 DEF UserInv, PasswordInForce
<1>7. LoginsCurrent'
  BY <1>1, <1>2, <1>3 DEF UserInv, UserTyped, LoginsCurrent, Login
<1>8. QED
  BY <1>5, <1>6, <1>7 DEF UserInv

(* A password that is given is in force; a login under way with an older   *)
(* plaintext one is on record.                                             *)
LEMMA InstallInv ==
    ASSUME UserInv, NEW u \in Users, NEW s \in Secrets, Install(u, s)
    PROVE  UserInv'
<1>1. Hashed(s) \in Password /\ Hashed(s).secret = s /\ Hashed(s) # Null
  BY HashedType
<1>2. Upgrading(u) \in BOOLEAN
  BY DEF Upgrading
<1>3. UserTyped'
  BY <1>1, <1>2 DEF Install, UserInv, UserTyped
<1>4. PasswordInForce'
  BY <1>1 DEF Install, UserInv, UserTyped, PasswordInForce
<1>5. LoginsCurrent'
  <2> SUFFICES ASSUME NEW l \in Logins, logins[l] # Null, logins[l].needsUpgrade
               PROVE  /\ ~logins[l].read.hashed
                      /\ stored'[logins[l].user] # Null /\ ~raced'[logins[l].user]
                           => logins[l].secret = installed'[logins[l].user]
    BY DEF Install, LoginsCurrent
  <2>1. ~logins[l].read.hashed /\ logins[l].user \in Users
    BY DEF UserInv, UserTyped, LoginsCurrent, Login
  <2>2. CASE logins[l].user = u
    <3>1. Upgrading(u)
      BY <2>1, <2>2 DEF Upgrading
    <3>2. raced'[u] = TRUE
      BY <3>1 DEF Install, UserInv, UserTyped
    <3>3. QED
      BY <2>1, <2>2, <3>2
  <2>3. CASE logins[l].user # u
    BY <2>1, <2>3 DEF Install, UserInv, UserTyped, LoginsCurrent
  <2>4. QED
    BY <2>2, <2>3
<1>6. QED
  BY <1>3, <1>4, <1>5 DEF UserInv

(* A name without a row has no password in force.                          *)
LEMMA DeleteUserInv ==
    ASSUME UserInv, NEW u \in Users, DeleteUser(u)
    PROVE  UserInv'
<1>1. UserTyped'
  BY DEF DeleteUser, UserInv, UserTyped
<1>2. PasswordInForce'
  BY DEF DeleteUser, UserInv, UserTyped, PasswordInForce
<1>3. LoginsCurrent'
  BY DEF DeleteUser, UserInv, UserTyped, LoginsCurrent, Login
<1>4. QED
  BY <1>1, <1>2, <1>3 DEF UserInv

(* Every step keeps the users' invariant.                                  *)
LEMMA NextUser == UserInv /\ [Next]_vars => UserInv'
<1> SUFFICES ASSUME UserInv, [Next]_vars PROVE UserInv'
  OBVIOUS
<1>1. CASE UNCHANGED userVars
  BY <1>1 DEF userVars, UserInv, UserTyped, PasswordInForce, LoginsCurrent
<1>2. CASE UserStep
  BY <1>2, AuthorizeInv, AuthenticateInv, UpgradeInv, LoginEndsInv, InstallInv,
     DeleteUserInv DEF UserStep, CreateUser, SetUserPassword
<1>3. CASE Restart
  <2>1. UserTyped'
    BY <1>3 DEF Restart, UserInv, UserTyped
  <2>2. PasswordInForce' /\ LoginsCurrent'
    BY <1>3 DEF Restart, UserInv, PasswordInForce, LoginsCurrent
  <2>3. QED
    BY <2>1, <2>2 DEF UserInv
<1>4. QED
  BY <1>1, <1>2, <1>3 DEF Next, vars

-----------------------------------------------------------------------------
(* Administrators.                                                         *)

(* A start installs passwords that can be hashed.                          *)
LEMMA BootstrappedType ==
    ASSUME NEW S, Secrets \ Long \subseteq S,
           NEW table \in [Admins -> S \cup {Null}]
    PROVE  Bootstrapped(table) \in [Admins -> S \cup {Null}]
BY CredentialAssumption DEF CredentialAssumption, Bootstrapped

(* Every initial state satisfies the administrators' invariant.            *)
LEMMA InitAdmin == Init => AdminInv
<1> SUFFICES ASSUME Init PROVE AdminInv
  OBVIOUS
<1>1. adminHash \in [Admins -> (Secrets \ Long) \cup {Null}]
  BY BootstrappedType DEF Init
<1>2. AdminTyped
  BY <1>1 DEF Init, AdminTyped
<1>3. AdminPasswordInForce /\ ChangesCurrent
  BY DEF Init, AdminPasswordInForce, ChangesCurrent
<1>4. QED
  BY <1>2, <1>3 DEF AdminInv

(* The first statement of a change verifies the password in force.         *)
LEMMA VerifyOldInv ==
    ASSUME AdminInv, NEW k \in Changes, NEW a \in Admins,
           NEW old \in Secrets, NEW new \in Secrets, VerifyOld(k, a, old, new)
    PROVE  AdminInv'
<1> DEFINE e == [admin |-> a, old |-> old, new |-> new]
<1>1. e \in Change /\ e.admin = a /\ e.old = old
  BY DEF Change
<1>2. changes' = [changes EXCEPT ![k] = e] /\ UNCHANGED <<adminHash, given, overtaken>>
  BY DEF VerifyOld
<1>3. ~overtaken[a] => old = given[a]
  BY DEF VerifyOld, VerifiesOld, AdminInv, AdminPasswordInForce
<1> HIDE DEF e
<1>4. AdminTyped'
  BY <1>1, <1>2 DEF AdminInv, AdminTyped
<1>5. AdminPasswordInForce'
  BY <1>2 DEF AdminInv, AdminPasswordInForce
<1>6. ChangesCurrent'
  BY <1>1, <1>2, <1>3 DEF AdminInv, AdminTyped, ChangesCurrent
<1>7. QED
  BY <1>4, <1>5, <1>6 DEF AdminInv

(* A password written while no other change of it is under way overtakes   *)
(* none; otherwise that is on record.                                      *)
LEMMA WriteInv ==
    ASSUME AdminInv, NEW a \in Admins, NEW s \in Secrets \ Long,
           NEW g \in Secrets \cup {Null}, ~overtaken'[a] => g = s,
           adminHash' = [adminHash EXCEPT ![a] = s],
           given' = [given EXCEPT ![a] = g],
           NEW others \in BOOLEAN,
           overtaken' = [overtaken EXCEPT ![a] = others],
           changes' \in [Changes -> Change \cup {Null}],
           \A k \in Changes : changes'[k] # Null =>
             /\ changes'[k] = changes[k]
             /\ changes[k].admin = a => others
    PROVE  AdminInv'
<1>1. AdminTyped'
  BY DEF AdminInv, AdminTyped
<1>2. AdminPasswordInForce'
  BY DEF AdminInv, AdminTyped, AdminPasswordInForce
<1>3. ChangesCurrent'
  BY DEF AdminInv, AdminTyped, ChangesCurrent, Change
<1>4. QED
  BY <1>1, <1>2, <1>3 DEF AdminInv

(* The second statement of a change.                                       *)
LEMMA WriteNewInv ==
    ASSUME AdminInv, NEW k \in Changes, WriteNew(k)
    PROVE  AdminInv'
<1> DEFINE a == changes[k].admin
<1> DEFINE s == changes[k].new
<1> DEFINE entitled == overtaken[a] \/ changes[k].old = given[a]
<1> DEFINE g == IF entitled THEN s ELSE given[a]
<1>1. a \in Admins /\ s \in Secrets \ Long
  BY DEF WriteNew, AdminInv, AdminTyped, Change
<1>2. entitled
  BY DEF WriteNew, AdminInv, ChangesCurrent
<1>3. g = s
  BY <1>2
<1>4. /\ adminHash' = [adminHash EXCEPT ![a] = s]
      /\ given' = [given EXCEPT ![a] = g]
      /\ overtaken' = [overtaken EXCEPT ![a] = Changing(a) # {k}]
      /\ changes' = [changes EXCEPT ![k] = Null]
  BY DEF WriteNew
<1>5. (Changing(a) # {k}) \in BOOLEAN
  OBVIOUS
<1>6. changes' \in [Changes -> Change \cup {Null}]
  BY <1>4 DEF AdminInv, AdminTyped
<1>7. ASSUME NEW j \in Changes, changes'[j] # Null
      PROVE  /\ changes'[j] = changes[j]
             /\ changes[j].admin = a => Changing(a) # {k}
  <2>1. j # k /\ changes'[j] = changes[j]
    BY <1>4, <1>7 DEF AdminInv, AdminTyped
  <2>2. changes[j].admin = a => j \in Changing(a)
    BY <1>7, <2>1 DEF Changing
  <2>3. QED
    BY <2>1, <2>2
<1> HIDE DEF a, s, g
<1>8. QED
  BY <1>1, <1>3, <1>4, <1>5, <1>6, <1>7, WriteInv

(* A password given by a super.                                            *)
LEMMA GiveInv ==
    ASSUME AdminInv, NEW a \in Admins, NEW s \in Secrets, Give(a, s)
    PROVE  AdminInv'
<1>1. s \in Secrets \ Long /\ (Changing(a) # {}) \in BOOLEAN
  BY DEF Give
<1>2. /\ adminHash' = [adminHash EXCEPT ![a] = s]
      /\ given' = [given EXCEPT ![a] = s]
      /\ overtaken' = [overtaken EXCEPT ![a] = Changing(a) # {}]
      /\ changes' = changes
  BY DEF Give
<1>3. changes' \in [Changes -> Change \cup {Null}]
  BY <1>2 DEF AdminInv, AdminTyped
<1>4. ASSUME NEW j \in Changes, changes'[j] # Null
      PROVE  /\ changes'[j] = changes[j]
             /\ changes[j].admin = a => Changing(a) # {}
  BY <1>2, <1>4 DEF Changing
<1>5. QED
  BY <1>1, <1>2, <1>3, <1>4, WriteInv

(* A change that ends without its second statement.                        *)
LEMMA ChangeFailsInv ==
    ASSUME AdminInv, NEW k \in Changes, ChangeFails(k)
    PROVE  AdminInv'
<1>1. AdminTyped'
  BY DEF ChangeFails, AdminInv, AdminTyped
<1>2. AdminPasswordInForce' /\ ChangesCurrent'
  BY DEF ChangeFails, AdminInv, AdminTyped, AdminPasswordInForce, ChangesCurrent
<1>3. QED
  BY <1>1, <1>2 DEF AdminInv

(* A start ends every change and gives the bootstrap accounts theirs.      *)
LEMMA RestartAdmin ==
    ASSUME AdminInv, Restart
    PROVE  AdminInv'
<1>1. adminHash' \in [Admins -> (Secrets \ Long) \cup {Null}]
  BY BootstrappedType DEF Restart, AdminInv, AdminTyped
<1>2. given' \in [Admins -> Secrets \cup {Null}]
  BY BootstrappedType DEF Restart, AdminInv, AdminTyped
<1>3. AdminTyped'
  BY <1>1, <1>2 DEF Restart, AdminInv, AdminTyped
<1>4. AdminPasswordInForce'
  BY DEF Restart, Bootstrapped, AdminInv, AdminTyped, AdminPasswordInForce
<1>5. ChangesCurrent'
  BY DEF Restart, ChangesCurrent
<1>6. QED
  BY <1>3, <1>4, <1>5 DEF AdminInv

(* Every step keeps the administrators' invariant.                         *)
LEMMA NextAdmin == AdminInv /\ [Next]_vars => AdminInv'
<1> SUFFICES ASSUME AdminInv, [Next]_vars PROVE AdminInv'
  OBVIOUS
<1>1. CASE UNCHANGED adminVars
  BY <1>1 DEF adminVars, AdminInv, AdminTyped, AdminPasswordInForce, ChangesCurrent
<1>2. CASE AdminStep
  BY <1>2, VerifyOldInv, WriteNewInv, GiveInv, ChangeFailsInv
     DEF AdminStep, CreateAdmin, SetAdminPassword
<1>3. CASE Restart
  BY <1>3, RestartAdmin
<1>4. QED
  BY <1>1, <1>2, <1>3 DEF Next, vars

-----------------------------------------------------------------------------
(* Theorems.                                                               *)

(* The columns, the logins and changes under way and the history variables *)
(* keep their types.                                                       *)
THEOREM TypeCorrect == Spec => []TypeOK
<1>1. UserInv /\ AdminInv => TypeOK
  BY DEF UserInv, AdminInv, UserTyped, AdminTyped, TypeOK
<1>2. QED
  BY InitUser, NextUser, InitAdmin, NextAdmin, <1>1, PTL DEF Spec

(* A user's password is the one last given (store.go:1023-1066).           *)
THEOREM UserPasswordHolds == Spec => []PasswordInForce
<1>1. UserInv => PasswordInForce
  BY DEF UserInv
<1>2. QED
  BY InitUser, NextUser, <1>1, PTL DEF Spec

(* An administrator's password is the one last given (store.go:471-499).   *)
THEOREM AdminPasswordHolds == Spec => []AdminPasswordInForce
<1>1. AdminInv => AdminPasswordInForce
  BY DEF AdminInv
<1>2. QED
  BY InitAdmin, NextAdmin, <1>1, PTL DEF Spec

(* No step puts a hashed password back into plaintext (store.go:1048-1053).*)
THEOREM NeverPlaintextAgain == Spec => HashedForGood
<1>1. UserInv /\ [Next]_vars =>
        [\A u \in Users : stored[u] # Null /\ stored[u].hashed /\ stored'[u] # Null
                             => stored'[u].hashed]_vars
  <2> SUFFICES ASSUME UserInv, Next, NEW u \in Users,
                      stored[u] # Null, stored[u].hashed, stored'[u] # Null
               PROVE  stored'[u].hashed
    OBVIOUS
  <2>1. CASE stored' = stored
    BY <2>1
  <2>2. ASSUME NEW v \in Users, NEW s, stored' = [stored EXCEPT ![v] = Hashed(s)]
        PROVE  stored'[u].hashed
    BY <2>2 DEF Hashed, UserInv, UserTyped
  <2>3. ASSUME NEW l \in Logins, Upgrade(l)
        PROVE  stored'[u].hashed
    BY <2>3 DEF Upgrade, Written, Hashed, UserInv, UserTyped
  <2>4. ASSUME NEW v \in Users, DeleteUser(v)
        PROVE  stored'[u].hashed
    BY <2>4 DEF DeleteUser, UserInv, UserTyped
  <2>5. CASE UserStep
    BY <2>1, <2>2, <2>3, <2>4, <2>5 DEF UserStep, Authorize, Authenticate,
       UpgradeFails, Answer, CreateUser, SetUserPassword, Install
  <2>6. QED
    BY <2>1, <2>5 DEF Next, userVars, Restart
<1>2. QED
  BY InitUser, NextUser, <1>1, PTL DEF Spec, HashedForGood
===============================================================================
