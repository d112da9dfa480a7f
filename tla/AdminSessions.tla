--------------------------- MODULE AdminSessions ---------------------------
(***************************************************************************)
(* Administrators and their login sessions (internal/control/store.go and  *)
(* api.go): login, the authentication of every request by its session, and *)
(* the requests that end sessions or change administrators.                *)
(*                                                                         *)
(* A request is a sequence of statements, each atomic, with the statements *)
(* of other requests in between; what it decides by (the role it read, the *)
(* clock) is as old as the statement that read it.  A request lasts at     *)
(* most MaxWait seconds, and may break off after any statement.  Passwords *)
(* play no part in a session's life, and Login is a login with the right   *)
(* one; the writes to users are left to the other modules.                 *)
(***************************************************************************)
EXTENDS Integers, FiniteSets

CONSTANTS
    Admins, SIDs, Requests, Null,
    SuperUser, ReadonlyUser,    \* BOOTSTRAP_ADMIN_USER, BOOTSTRAP_READONLY
    TTL,                        \* ADMIN_SESSION_TTL
    Managed,                    \* bound: the administrators that requests change
    MaxWait,                    \* bound: seconds a request lasts
    MaxTime                     \* bound: the last second of a behaviour

VARIABLES
    clock,
    admins,
    sessions,
    requests,
    issued,     \* history: the session ids handed out
    renewed,    \* history: when a session was last created or renewed; 0 if it
                \*          never was, or has been deleted on request since
    superAt     \* history: when an administrator was last an enabled super

vars == <<clock, admins, sessions, requests, issued, renewed, superAt>>

Roles == {"super", "readonly"}
Admin == [role : Roles, status : {0, 1}]
Session == [username : Admins, expires_at : Nat]

Phases == {"idle", "select", "renew", "act", "delete", "login", "insert"}
Request == [phase : Phases, sid : SIDs \cup {Null}, actor : Admins \cup {Null},
            role : Roles \cup {Null}, target : SIDs \cup {Null}, began : Nat]
IdleRequest == [phase |-> "idle", sid |-> Null, actor |-> Null, role |-> Null,
                target |-> Null, began |-> 0]

ASSUME SessionAssumption ==
    /\ IsFiniteSet(SIDs)
    /\ SuperUser \in Admins /\ ReadonlyUser \in Admins /\ Managed \subseteq Admins
    /\ Null \notin Admins \cup SIDs \cup Admin \cup Session \cup Roles
    /\ TTL \in Nat /\ MaxWait \in Nat /\ MaxTime \in Nat

TypeOK ==
    /\ clock \in Nat
    /\ admins \in [Admins -> Admin \cup {Null}]
    /\ sessions \in [SIDs -> Session \cup {Null}]
    /\ requests \in [Requests -> Request]
    /\ issued \subseteq SIDs
    /\ renewed \in [SIDs -> Nat]
    /\ superAt \in [Admins -> Nat]

-----------------------------------------------------------------------------

\* EnsureBootstrapAdmins, at every start: the second upsert follows the first.
Upserted(table, a, role) == [table EXCEPT ![a] = [role |-> role, status |-> 1]]
Bootstrapped(table) ==
    Upserted(Upserted(table, SuperUser, "super"), ReadonlyUser, "readonly")

IsSuper(row) == row # Null /\ row.role = "super" /\ row.status = 1

Init ==
    /\ clock = 1
    /\ admins = Bootstrapped([a \in Admins |-> Null])
    /\ sessions = [i \in SIDs |-> Null]
    /\ requests = [r \in Requests |-> IdleRequest]
    /\ issued = {}
    /\ renewed = [i \in SIDs |-> 0]
    /\ superAt = [a \in Admins |-> IF IsSuper(admins[a]) THEN 1 ELSE 0]

-----------------------------------------------------------------------------

\* cleanupExpiredSessions, the first statement of whatever touches sessions.
CleanedUp(now) ==
    [i \in SIDs |-> IF sessions[i] # Null /\ sessions[i].expires_at < now
                    THEN Null ELSE sessions[i]]

\* Clock readings a request may have taken before its next statement ran.
Readings(r) == requests[r].began .. clock

Continue(r, fields) == requests' = [requests EXCEPT ![r] = fields]
Finish(r) == Continue(r, IdleRequest)

\* ValidateAdminSession: the DELETE, the SELECT, the UPDATE.
Begin(r, i, now) ==
    /\ requests[r].phase = "idle"
    /\ sessions' = CleanedUp(now)
    /\ Continue(r, [IdleRequest EXCEPT !.phase = "select", !.sid = i, !.began = now])
    /\ UNCHANGED <<clock, admins, issued, renewed>>

\* The row of the session's administrator, if the session counts as alive.
Joined(i, now) ==
    IF sessions[i] # Null /\ sessions[i].expires_at >= now
    THEN admins[sessions[i].username] ELSE Null

\* (Slip: the status of the administrator is checked at login only.)
Valid_Slip(i, now) == Joined(i, now) # Null
Valid(i, now) == Joined(i, now) # Null /\ Joined(i, now).status = 1

Authenticate(r, now) ==
    /\ requests[r].phase = "select"
    /\ Valid(requests[r].sid, now)
    /\ Continue(r, [requests[r] EXCEPT !.phase = "renew",
                        !.actor = sessions[requests[r].sid].username,
                        !.role = Joined(requests[r].sid, now).role])
    /\ UNCHANGED <<clock, admins, sessions, issued, renewed>>

Unauthorized(r, now) ==
    /\ requests[r].phase = "select"
    /\ ~Valid(requests[r].sid, now)
    /\ Finish(r)
    /\ UNCHANGED <<clock, admins, sessions, issued, renewed>>

\* The row of the request's session after its UPDATE.
\* (Slips: an upsert, with and without the name; the ttl added to the old expiry;
\* an UPDATE of last_activity only.)
Renewed_UpsertSlip(r, now) == [username |-> requests[r].actor, expires_at |-> now + TTL]
Renewed_BareSlip(r, now) == [username |-> Null, expires_at |-> now + TTL]
Renewed_AddSlip(r, now) ==
    LET row == sessions[requests[r].sid] IN
    IF row = Null THEN Null ELSE [row EXCEPT !.expires_at = @ + TTL]
Renewed_ActivitySlip(r, now) == sessions[requests[r].sid]
Renewed(r, now) ==
    LET row == sessions[requests[r].sid] IN
    IF row = Null THEN Null ELSE [row EXCEPT !.expires_at = now + TTL]

\* The UPDATE finds no row if the session was deleted after the SELECT.
Renew(r, now) ==
    LET i == requests[r].sid IN
    /\ requests[r].phase = "renew"
    /\ sessions' = [sessions EXCEPT ![i] = Renewed(r, now)]
    /\ renewed' = [renewed EXCEPT ![i] = IF sessions[i] = Null THEN @ ELSE clock]
    /\ Continue(r, [requests[r] EXCEPT !.phase = "act"])
    /\ UNCHANGED <<clock, admins, issued>>

-----------------------------------------------------------------------------

\* What a request does once it is authenticated.  Every write is left to supers
\* (allowMethod), to log out included.
Acting(r) == requests[r].phase = "act"
Writing(r) == Acting(r) /\ requests[r].role = "super"

Deleted(i) ==
    /\ sessions' = [sessions EXCEPT ![i] = Null]
    /\ renewed' = [renewed EXCEPT ![i] = 0]

Logout(r) ==
    /\ Writing(r)
    /\ Deleted(requests[r].sid)
    /\ Finish(r)
    /\ UNCHANGED <<clock, admins, issued>>

\* DELETE /sessions/{id}: the actor's sessions are listed and, if the one meant is
\* among them, it is deleted by the next statement.
ListOwn(r, i, now) ==
    /\ Writing(r)
    /\ sessions' = CleanedUp(now)
    /\ IF sessions'[i] # Null /\ sessions'[i].username = requests[r].actor
       THEN Continue(r, [requests[r] EXCEPT !.phase = "delete", !.target = i])
       ELSE Finish(r)
    /\ UNCHANGED <<clock, admins, issued, renewed>>

DeleteSession(r) ==
    /\ requests[r].phase = "delete"
    /\ Deleted(requests[r].target)
    /\ Finish(r)
    /\ UNCHANGED <<clock, admins, issued>>

WriteAdmins(r, table) ==
    /\ Writing(r)
    /\ admins' = table
    /\ Finish(r)
    /\ UNCHANGED <<clock, sessions, issued, renewed>>

CreateAdmin(r, a, role) ==
    /\ admins[a] = Null
    /\ WriteAdmins(r, Upserted(admins, a, role))

SetAdminStatus(r, a, status) ==
    /\ admins[a] # Null
    /\ WriteAdmins(r, [admins EXCEPT ![a].status = status])

SetAdminRole(r, a, role) ==
    /\ admins[a] # Null
    /\ WriteAdmins(r, [admins EXCEPT ![a].role = role])

\* All other requests, refused ones too, and a request broken off anywhere.
Leave(r) ==
    /\ requests[r].phase # "idle"
    /\ Finish(r)
    /\ UNCHANGED <<clock, admins, sessions, issued, renewed>>

-----------------------------------------------------------------------------

\* handleAdminLogin: the credentials, then the clean-up, then the new session.
Login(r, a, now) ==
    /\ requests[r].phase = "idle"
    /\ admins[a] # Null /\ admins[a].status = 1
    /\ Continue(r, [IdleRequest EXCEPT !.phase = "login", !.actor = a, !.began = now])
    /\ UNCHANGED <<clock, admins, sessions, issued, renewed>>

LoginCleanUp(r, now) ==
    /\ requests[r].phase = "login"
    /\ sessions' = CleanedUp(now)
    /\ Continue(r, [requests[r] EXCEPT !.phase = "insert"])
    /\ UNCHANGED <<clock, admins, issued, renewed>>

CreateSession(r, i, now) ==
    /\ requests[r].phase = "insert"
    /\ i \notin issued
    /\ sessions' = [sessions EXCEPT ![i] =
            [username |-> requests[r].actor, expires_at |-> now + TTL]]
    /\ issued' = issued \cup {i}
    /\ renewed' = [renewed EXCEPT ![i] = clock]
    /\ Finish(r)
    /\ UNCHANGED <<clock, admins>>

Tick ==
    /\ clock < MaxTime
    /\ \A r \in Requests :
          requests[r].phase # "idle" => clock < requests[r].began + MaxWait
    /\ clock' = clock + 1
    /\ UNCHANGED <<admins, sessions, requests, issued, renewed>>

\* Sessions are in the database and outlive the process.
Restart ==
    /\ requests' = [r \in Requests |-> IdleRequest]
    /\ admins' = Bootstrapped(admins)
    /\ UNCHANGED <<clock, sessions, issued, renewed>>

RequestStep(r) ==
    \/ \E i \in SIDs, now \in clock - MaxWait .. clock : now > 0 /\ Begin(r, i, now)
    \/ \E a \in Admins, now \in clock - MaxWait .. clock : now > 0 /\ Login(r, a, now)
    \/ \E now \in Readings(r) :
          \/ Authenticate(r, now) \/ Unauthorized(r, now) \/ Renew(r, now)
          \/ LoginCleanUp(r, now)
          \/ \E i \in SIDs : CreateSession(r, i, now) \/ ListOwn(r, i, now)
    \/ Logout(r) \/ DeleteSession(r) \/ Leave(r)
    \/ \E a \in Managed, role \in Roles : CreateAdmin(r, a, role) \/ SetAdminRole(r, a, role)
    \/ \E a \in Managed, status \in {0, 1} : SetAdminStatus(r, a, status)

Next ==
    /\ (\E r \in Requests : RequestStep(r)) \/ Tick \/ Restart
    /\ superAt' = [a \in Admins |-> IF IsSuper(admins'[a]) THEN clock' ELSE superAt[a]]

Spec == Init /\ [][Next]_vars

-----------------------------------------------------------------------------

(* A session that has ended, by logout, deletion or expiry, is never alive *)
(* again, whatever requests were under way with it (store.go:549-557).     *)
SessionsEnd ==
    [][\A i \in issued : sessions[i] = Null => sessions'[i] = Null]_vars

(* A session that is not deleted on request is kept for TTL seconds after  *)
(* each use, less the seconds a request lasts: neither an older renewal    *)
(* that is late nor a clean-up takes it away (store.go:501-504, 549-557).  *)
UsedSessionsLast ==
    \A i \in SIDs :
        renewed[i] > 0 /\ clock + MaxWait <= renewed[i] + TTL => sessions[i] # Null

(* A request is authenticated only by a session used within the last TTL   *)
(* seconds and the seconds a request lasts (store.go:536-545).             *)
IdleSessionsEnd ==
    [][\A r \in Requests : \A now \in Readings(r) :
        Authenticate(r, now) => clock <= renewed[requests[r].sid] + TTL + MaxWait]_vars

(* Only the process at its start, and requests of an administrator who was *)
(* an enabled super while the request lasted, change administrators: being *)
(* disabled or demoted takes effect on the next request of every session   *)
(* (api.go:137-147, store.go:536-548).                                     *)
OnlySupersManage ==
    [][admins' # admins =>
        \/ Restart
        \/ \E r \in Requests :
              /\ Writing(r) /\ requests'[r] = IdleRequest
              /\ clock <= superAt[requests[r].actor] + MaxWait]_vars

=============================================================================
