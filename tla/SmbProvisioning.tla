-------------------------- MODULE SmbProvisioning --------------------------
(***************************************************************************)
(* The SMB side of a user (internal/control/api.go): a row with its        *)
(* smb_enabled flag and its password in the database, a directory, and a   *)
(* share and an account in the router's Samba configuration, kept in step  *)
(* by handlers that do one thing after the other without a lock or a       *)
(* transaction around them.                                                *)
(*                                                                         *)
(* Every step of a handler may fail, some after having had their effect: a *)
(* directory is made before the script that sets its permissions runs, and *)
(* a share is committed before Samba is restarted.  The process may stop   *)
(* between any two steps.  An account gets a password from the creation of *)
(* an enabled user and from a password change; nothing removes it, and     *)
(* enabling, which has no password to give, leaves it as it is.            *)
(*                                                                         *)
(* A handler that cannot read the row takes the user for one without SMB:  *)
(* a deletion then removes the row, and nothing else, of an enabled user,  *)
(* and reports success; a password change leaves the account as it was.    *)
(* The quota columns are left out.                                         *)
(***************************************************************************)
EXTENDS Integers

CONSTANTS Users, Requests, Secrets, Null

VARIABLES
    row,        \* the user's row: none, or with smb_enabled off or on
    dir,        \* the directory exists
    share,      \* the share is configured
    password,   \* the password of the row, Null without one
    account,    \* the password of the user's Samba account, Null without one
    requests,
    disturbed,  \* history: requests on the user overlapped, one broke off half-way
                \*          without undoing what it had done, or a deletion took
                \*          the row of an enabled user and nothing else
    cleaned,    \* history: the last of the requests completed on the user was a
                \*          disable or a deletion, and no other has begun since
    unsynced    \* history: the account was not given the row's password by the
                \*          last request that gave one, or not by it alone

accounts == <<password, account, unsynced>>
vars == <<row, dir, share, accounts, requests, disturbed, cleaned>>

Rows == {"none", "off", "on"}
Provisioners == {"create", "enable", "disable", "delete", "webdav"}
Givers == {"create", "password"}    \* the handlers that have a password to give
Ops == Provisioners \cup Givers
Steps == {"insert", "get", "mkdir", "account", "share", "rmdir", "flag", "remove",
          "remove_row_only", "undo_row", "undo_row_and_dir", "undo_dir", "update"}
Request == [op : Ops, user : Users, smb : BOOLEAN, secret : Secrets \cup {Null}, step : Steps,
            alone : BOOLEAN]

ASSUME SmbAssumption == Null \notin Request \cup Secrets

TypeOK ==
    /\ row \in [Users -> Rows]
    /\ dir \in [Users -> BOOLEAN]
    /\ share \in [Users -> BOOLEAN]
    /\ password \in [Users -> Secrets \cup {Null}]
    /\ account \in [Users -> Secrets \cup {Null}]
    /\ unsynced \in [Users -> BOOLEAN]
    /\ requests \in [Requests -> Request \cup {Null}]
    /\ disturbed \in [Users -> BOOLEAN]
    /\ cleaned \in [Users -> BOOLEAN]

Init ==
    /\ row = [u \in Users |-> "none"]
    /\ dir = [u \in Users |-> FALSE]
    /\ share = [u \in Users |-> FALSE]
    /\ password = [u \in Users |-> Null]
    /\ account = [u \in Users |-> Null]
    /\ unsynced = [u \in Users |-> FALSE]
    /\ requests = [r \in Requests |-> Null]
    /\ disturbed = [u \in Users |-> FALSE]
    /\ cleaned = [u \in Users |-> FALSE]

-----------------------------------------------------------------------------

\* The requests on u under way that do any of these operations.
On(u, ops) == {r \in Requests :
    requests[r] # Null /\ requests[r].user = u /\ requests[r].op \in ops}
Quiet(u) == On(u, Provisioners) = {}

\* Those that may step on the toes of one that does op.
Rivals(u, op) == UNION {On(u, ops) : ops \in {o \in {Provisioners, Givers} : op \in o}}

At(r, step) == requests[r] # Null /\ requests[r].step = step
User(r) == requests[r].user
Op(r) == requests[r].op

\* The first step of each handler.
FirstStep == [create |-> "insert", enable |-> "mkdir", disable |-> "share",
              delete |-> "get", webdav |-> "get", password |-> "update"]

Begin(r, op, u, smb, s) ==
    /\ requests[r] = Null
    /\ op # "create" => ~smb
    /\ op \in Givers <=> s # Null
    /\ requests' = [q \in Requests |->
            IF q = r THEN [op |-> op, user |-> u, smb |-> smb, secret |-> s,
                           step |-> FirstStep[op], alone |-> Rivals(u, op) = {}]
            ELSE IF q \in Rivals(u, op) THEN [requests[q] EXCEPT !.alone = FALSE]
            ELSE requests[q]]
    /\ disturbed' = [disturbed EXCEPT ![u] = @ \/ (op \in Provisioners /\ ~Quiet(u))]
    /\ cleaned' = [cleaned EXCEPT ![u] = @ /\ op \notin {"create", "enable"}]
    /\ UNCHANGED <<row, dir, share, accounts>>

Goto(r, step) == requests' = [requests EXCEPT ![r].step = step]
End(r) == requests' = [requests EXCEPT ![r] = Null]
Disturb(r, b) == disturbed' = [disturbed EXCEPT ![User(r)] = @ \/ b]

\* A handler that returns at its failing step, after which b tells whether
\* something is left half-done.
BreakOff(r, b) == End(r) /\ Disturb(r, b) /\ UNCHANGED cleaned

\* The password column; the account does not have the password yet.
GivePassword(r) ==
    /\ password' = [password EXCEPT ![User(r)] = requests[r].secret]
    /\ unsynced' = [unsynced EXCEPT ![User(r)] = TRUE]
    /\ UNCHANGED account

\* CreateUser: the row first, the flag set from the start.
\* (Slip: a value of the flag that no other handler knows.)
InsertRow_Slip(r) ==
    /\ At(r, "insert")
    /\ row[User(r)] = "none"
    /\ row' = [row EXCEPT ![User(r)] = IF requests[r].smb THEN "enabled" ELSE "off"]
    /\ GivePassword(r)
    /\ IF requests[r].smb THEN Goto(r, "mkdir") ELSE End(r)
    /\ UNCHANGED <<dir, share, disturbed, cleaned>>
InsertRow(r) ==
    /\ At(r, "insert")
    /\ row[User(r)] = "none"
    /\ row' = [row EXCEPT ![User(r)] = IF requests[r].smb THEN "on" ELSE "off"]
    /\ GivePassword(r)
    /\ IF requests[r].smb THEN Goto(r, "mkdir") ELSE End(r)
    /\ UNCHANGED <<dir, share, disturbed, cleaned>>

InsertFails(r) ==
    /\ At(r, "insert")
    /\ BreakOff(r, FALSE)
    /\ UNCHANGED <<row, dir, share, accounts>>

\* SetUserPassword, which reports no missing user.
UpdatePassword(r) ==
    /\ At(r, "update")
    /\ IF row[User(r)] = "none" THEN UNCHANGED accounts ELSE GivePassword(r)
    /\ Goto(r, "get")
    /\ UNCHANGED <<row, dir, share, disturbed, cleaned>>

UpdateFails(r) ==
    /\ At(r, "update")
    /\ End(r)
    /\ UNCHANGED <<row, dir, share, accounts, disturbed, cleaned>>

\* GetUser for a deletion; AuthenticateUserPassword, with the right password, for
\* WebDAV.  A deletion goes straight to the row of a user whose flag is off;
\* a password change is done with such a user.
ReadRow(r) ==
    /\ At(r, "get")
    /\ CASE Op(r) = "delete" ->
              Goto(r, IF row[User(r)] = "on" THEN "share" ELSE "remove_row_only")
         [] Op(r) = "webdav" ->
              IF row[User(r)] = "on" THEN Goto(r, "mkdir") ELSE End(r)
         [] Op(r) = "password" ->
              IF row[User(r)] = "on" THEN Goto(r, "account") ELSE End(r)
    /\ UNCHANGED <<row, dir, share, accounts, disturbed, cleaned>>

\* The database fails, or GetUser finds no row for a deletion or a password change.
\* A deletion goes on to the row, the others are done; none but WebDAV reports it.
ReadRowFails(r) ==
    /\ At(r, "get")
    /\ IF Op(r) = "delete" THEN Goto(r, "remove_row_only") ELSE End(r)
    /\ UNCHANGED <<row, dir, share, accounts, disturbed, cleaned>>

\* ensureUserSMBDir
MakeDir(r) ==
    /\ At(r, "mkdir")
    /\ dir' = [dir EXCEPT ![User(r)] = TRUE]
    /\ CASE Op(r) = "create" -> Goto(r, "account")
         [] Op(r) = "enable" -> Goto(r, "share")
         [] Op(r) = "webdav" -> End(r)
    /\ UNCHANGED <<row, share, accounts, disturbed, cleaned>>

MakeDirFails(r, made) ==
    /\ At(r, "mkdir")
    /\ dir' = [dir EXCEPT ![User(r)] = @ \/ made]
    /\ IF Op(r) = "create"
       THEN Goto(r, "undo_row") /\ Disturb(r, made) /\ UNCHANGED cleaned
       ELSE BreakOff(r, made)
    /\ UNCHANGED <<row, share, accounts>>

\* The script of syncSambaUserPassword: its exit status is not smbpasswd's.
\* (Slip: the account of a user who has one is left alone.)
SetAccount_Slip(r, done) ==
    /\ account' = [account EXCEPT ![User(r)] = IF done /\ @ = Null THEN requests[r].secret ELSE @]
    /\ unsynced' = [unsynced EXCEPT ![User(r)] = @ /\ ~(done /\ requests[r].alone)]
    /\ UNCHANGED password
SetAccount(r, done) ==
    /\ account' = [account EXCEPT ![User(r)] = IF done THEN requests[r].secret ELSE @]
    /\ unsynced' = [unsynced EXCEPT ![User(r)] = @ /\ ~(done /\ requests[r].alone)]
    /\ UNCHANGED password

\* syncSambaUserPassword
\* (Slip: the directory made before is forgotten.)
SyncAccount_Slip(r, ok, done) ==
    /\ At(r, "account")
    /\ SetAccount(r, done)
    /\ IF Op(r) = "password" THEN End(r) ELSE Goto(r, IF ok THEN "share" ELSE "undo_row")
    /\ UNCHANGED <<row, dir, share, disturbed, cleaned>>
SyncAccount(r, ok, done) ==
    /\ At(r, "account")
    /\ SetAccount(r, done)
    /\ IF Op(r) = "password" THEN End(r)
       ELSE Goto(r, IF ok THEN "share" ELSE "undo_row_and_dir")
    /\ UNCHANGED <<row, dir, share, disturbed, cleaned>>

\* applySambaShare
ApplyShare(r) ==
    /\ At(r, "share")
    /\ share' = [share EXCEPT ![User(r)] = Op(r) \in {"create", "enable"}]
    /\ CASE Op(r) = "create" -> End(r)
         [] Op(r) = "enable" -> Goto(r, "flag")
         [] Op(r) \in {"disable", "delete"} -> Goto(r, "rmdir")
    /\ UNCHANGED <<row, dir, accounts, disturbed, cleaned>>

ShareFails(r, done) ==
    /\ At(r, "share")
    /\ share' = [share EXCEPT ![User(r)] =
            IF done THEN Op(r) \in {"create", "enable"} ELSE @]
    /\ IF Op(r) = "create"
       THEN Goto(r, "undo_row_and_dir") /\ Disturb(r, done) /\ UNCHANGED cleaned
       ELSE BreakOff(r, done \/ Op(r) = "enable")
    /\ UNCHANGED <<row, dir, accounts>>

\* removeUserSMBDir
RemoveDir(r, ok) ==
    /\ At(r, "rmdir")
    /\ dir' = [dir EXCEPT ![User(r)] = @ /\ ~ok]
    /\ IF ok THEN /\ Goto(r, IF Op(r) = "disable" THEN "flag" ELSE "remove")
                  /\ UNCHANGED <<disturbed, cleaned>>
             ELSE BreakOff(r, TRUE)
    /\ UNCHANGED <<row, share, accounts>>

\* A disable, or the deletion of a user whose flag was on, has cleaned up for good
\* if no other request began meanwhile.
Settled(r) == [disturbed EXCEPT ![User(r)] = @ /\ ~requests[r].alone]

\* SetUserSMBEnabled
SetFlag(r) ==
    /\ At(r, "flag")
    /\ row[User(r)] # "none"
    /\ row' = [row EXCEPT ![User(r)] = IF Op(r) = "enable" THEN "on" ELSE "off"]
    /\ disturbed' = IF Op(r) = "disable" THEN Settled(r) ELSE disturbed
    /\ cleaned' = [cleaned EXCEPT ![User(r)] = Op(r) = "disable"]
    /\ unsynced' = [unsynced EXCEPT ![User(r)] =
            @ \/ (Op(r) = "enable" /\ row[User(r)] = "off")]
    /\ End(r)
    /\ UNCHANGED <<dir, share, password, account>>

\* The user is unknown, or the database fails.
SetFlagFails(r) ==
    /\ At(r, "flag")
    /\ BreakOff(r, TRUE)
    /\ UNCHANGED <<row, dir, share, accounts>>

\* DeleteUser.  A deletion that skipped the clean-up may meet an enabled user here.
RemoveRow(r) ==
    /\ At(r, "remove") \/ At(r, "remove_row_only")
    /\ row[User(r)] # "none"
    /\ row' = [row EXCEPT ![User(r)] = "none"]
    /\ IF At(r, "remove") THEN disturbed' = Settled(r) ELSE Disturb(r, row[User(r)] = "on")
    /\ password' = [password EXCEPT ![User(r)] = Null]
    /\ cleaned' = [cleaned EXCEPT ![User(r)] = TRUE]
    /\ End(r)
    /\ UNCHANGED <<dir, share, account, unsynced>>

RemoveRowFails(r) ==
    /\ At(r, "remove") \/ At(r, "remove_row_only")
    /\ BreakOff(r, At(r, "remove"))
    /\ UNCHANGED <<row, dir, share, accounts>>

\* A creation that failed deletes its row and then, unless it was the directory
\* that could not be made, the directory.  The errors of both are ignored.
UndoRow(r, ok) ==
    /\ At(r, "undo_row") \/ At(r, "undo_row_and_dir")
    /\ row' = [row EXCEPT ![User(r)] = IF ok THEN "none" ELSE @]
    /\ password' = [password EXCEPT ![User(r)] = IF ok THEN Null ELSE @]
    /\ Disturb(r, ~ok)
    /\ IF At(r, "undo_row") THEN End(r) ELSE Goto(r, "undo_dir")
    /\ UNCHANGED <<dir, share, account, unsynced, cleaned>>

UndoDir(r, ok) ==
    /\ At(r, "undo_dir")
    /\ dir' = [dir EXCEPT ![User(r)] = @ /\ ~ok]
    /\ BreakOff(r, ~ok)
    /\ UNCHANGED <<row, share, accounts>>

\* A restart drops the requests; what they had done stays.
Restart ==
    /\ requests' = [r \in Requests |-> Null]
    /\ disturbed' = [u \in Users |-> disturbed[u] \/ ~Quiet(u)]
    /\ UNCHANGED <<row, dir, share, accounts, cleaned>>

RequestStep(r) ==
    \/ \E op \in Ops, u \in Users, smb \in BOOLEAN, s \in Secrets \cup {Null} : Begin(r, op, u, smb, s)
    \/ InsertRow(r) \/ InsertFails(r) \/ UpdatePassword(r) \/ UpdateFails(r)
    \/ ReadRow(r) \/ ReadRowFails(r) \/ MakeDir(r) \/ ApplyShare(r) \/ SetFlag(r) \/ SetFlagFails(r)
    \/ RemoveRow(r) \/ RemoveRowFails(r)
    \/ \E b \in BOOLEAN :
          \/ MakeDirFails(r, b) \/ ShareFails(r, b)
          \/ \E done \in BOOLEAN : SyncAccount(r, b, done)
          \/ RemoveDir(r, b) \/ UndoRow(r, b) \/ UndoDir(r, b)

Next == (\E r \in Requests : RequestStep(r)) \/ Restart

Spec == Init /\ [][Next]_vars

-----------------------------------------------------------------------------

(* A user on whom no two requests overlapped and no request was left       *)
(* half-done has, at rest, a directory and a share if and only if its flag *)
(* is on.  A deletion that could not read the row of an enabled user       *)
(* counts as left half-done, although it reports success: it leaves both   *)
(* behind.  A creation whose account cannot be made leaves nothing behind, *)
(* and a disable, or a deletion that reads the flag as on, repairs         *)
(* whatever went wrong before (api.go:454-470, 545-562, 767-799).          *)
ProvisionedIffEnabled ==
    \A u \in Users :
        Quiet(u) /\ ~disturbed[u] =>
            dir[u] = (row[u] = "on") /\ share[u] = (row[u] = "on")

(* The Samba account of an enabled user has the password of the row.  The  *)
(* exceptions are an account last given one by requests that overlapped or *)
(* broke off, that could not read the row they had written, or by a script *)
(* whose smbpasswd failed unseen, and a user who was enabled later: that   *)
(* gives the account no password, and the account of the name's last owner *)
(* may still be there                                                      *)
(* (api.go:460-465, 767-782, 865-889, 945-966).                            *)
AccountInStep ==
    \A u \in Users : row[u] = "on" /\ ~unsynced[u] => account[u] = password[u]

(* README: disabling SMB for a user, or deleting the user, cleans up the   *)
(* directory.  Once it is done and nothing is under way, the directory is  *)
(* gone.                                                                   *)
DirectoryCleanedUp ==
    \A u \in Users : Quiet(u) /\ cleaned[u] => ~dir[u]

=============================================================================
