------------------------- MODULE AdminSessionsProofs -------------------------
(***************************************************************************)
(* Proofs about AdminSessions, for every number of administrators,         *)
(* sessions and overlapping requests and every time-to-live: its type      *)
(* invariant, what ends a session and what does not, and who may manage    *)
(* administrators.                                                         *)
(***************************************************************************)
EXTENDS AdminSessions, TLAPS

-----------------------------------------------------------------------------
(* The inductive invariant.                                                *)

\* A request knows what its later statements use; it is at most MaxWait old; and
\* one that acts as a super has read the role since it began.
RequestOK(q) ==
    /\ q.phase \in {"select", "renew", "act", "delete"} => q.sid \in SIDs
    /\ q.phase \in {"renew", "act", "delete", "login", "insert"} => q.actor \in Admins
    /\ q.phase = "delete" => q.target \in SIDs
    /\ q.phase # "idle" => q.began <= clock /\ clock <= q.began + MaxWait
    /\ q.phase \in {"renew", "act", "delete"} /\ q.role = "super"
          => q.began <= superAt[q.actor]

\* The expiry of a session is TTL seconds after its last use, but for the seconds
\* the request of that use had lasted.
SessionOK(i) ==
    /\ renewed[i] <= clock
    /\ sessions[i] # Null =>
          /\ sessions[i].expires_at <= renewed[i] + TTL
          /\ renewed[i] + TTL <= sessions[i].expires_at + MaxWait
    /\ renewed[i] > 0 /\ clock + MaxWait <= renewed[i] + TTL => sessions[i] # Null

SuperOK(a) ==
    /\ superAt[a] <= clock
    /\ IsSuper(admins[a]) => superAt[a] = clock

IInv ==
    /\ TypeOK
    /\ \A r \in Requests : RequestOK(requests[r])
    /\ \A i \in SIDs : SessionOK(i)
    /\ \A a \in Admins : SuperOK(a)

-----------------------------------------------------------------------------
(* The initial states.                                                     *)

LEMMA UpsertType ==
    ASSUME NEW table \in [Admins -> Admin \cup {Null}], NEW a \in Admins, NEW role \in Roles
    PROVE  Upserted(table, a, role) \in [Admins -> Admin \cup {Null}]
BY DEF Upserted, Admin

LEMMA BootstrapType ==
    ASSUME NEW table \in [Admins -> Admin \cup {Null}]
    PROVE  Bootstrapped(table) \in [Admins -> Admin \cup {Null}]
<1>1. SuperUser \in Admins /\ ReadonlyUser \in Admins
  BY SessionAssumption DEF SessionAssumption
<1>2. Upserted(table, SuperUser, "super") \in [Admins -> Admin \cup {Null}]
  BY <1>1, UpsertType DEF Roles
<1>3. QED
  BY <1>1, <1>2, UpsertType DEF Bootstrapped, Roles

LEMMA IdleOK == IdleRequest \in Request /\ RequestOK(IdleRequest)
BY DEF IdleRequest, Request, Phases, RequestOK

LEMMA InitInv == Init => IInv
<1> SUFFICES ASSUME Init PROVE IInv
  OBVIOUS
<1>1. admins \in [Admins -> Admin \cup {Null}]
  BY BootstrapType DEF Init
<1>2. TypeOK
  BY <1>1, IdleOK DEF Init, TypeOK
<1>3. \A r \in Requests : RequestOK(requests[r])
  BY IdleOK DEF Init
<1>4. \A i \in SIDs : SessionOK(i)
  BY DEF Init, SessionOK
<1>5. \A a \in Admins : SuperOK(a)
  BY DEF Init, SuperOK
<1>6. QED
  BY <1>2, <1>3, <1>4, <1>5 DEF IInv

-----------------------------------------------------------------------------
(* The history of supers, in every step.                                   *)

Noticed == superAt' = [a \in Admins |-> IF IsSuper(admins'[a]) THEN clock' ELSE superAt[a]]

LEMMA SupersNoticed ==
    ASSUME IInv, Noticed, clock' \in Nat, clock' >= clock
    PROVE  /\ superAt' \in [Admins -> Nat]
           /\ \A a \in Admins : SuperOK(a)' /\ superAt'[a] >= superAt[a]
BY DEF IInv, TypeOK, SuperOK, Noticed

(* A request that stands still stays in order until its time is up.        *)
LEMMA RequestStays ==
    ASSUME IInv, Noticed, clock' = clock, NEW r \in Requests, requests'[r] = requests[r]
    PROVE  RequestOK(requests[r])'
<1>1. \A a \in Admins : superAt'[a] >= superAt[a] /\ superAt'[a] \in Nat /\ superAt[a] \in Nat
  BY SupersNoticed DEF IInv, TypeOK
<1>2. requests[r] \in Request /\ RequestOK(requests[r])
  BY DEF IInv, TypeOK
<1>3. requests[r].began \in Nat
  BY <1>2 DEF Request
<1>4. QED
  BY <1>1, <1>2, <1>3 DEF RequestOK

-----------------------------------------------------------------------------
(* The sessions, in every step.                                            *)

(* A clean-up deletes no session that is still to last.                    *)
LEMMA CleanUpKeeps ==
    ASSUME IInv, NEW now \in Nat, now <= clock,
           sessions' = CleanedUp(now), UNCHANGED <<clock, renewed>>
    PROVE  sessions' \in [SIDs -> Session \cup {Null}] /\ \A i \in SIDs : SessionOK(i)'
<1>1. \A i \in SIDs :
         sessions'[i] = IF sessions[i] # Null /\ sessions[i].expires_at < now
                        THEN Null ELSE sessions[i]
  BY DEF CleanedUp
<1>2. sessions' \in [SIDs -> Session \cup {Null}]
  BY DEF CleanedUp, IInv, TypeOK
<1>3. ASSUME NEW i \in SIDs
      PROVE  SessionOK(i)'
  <2>1. SessionOK(i) /\ renewed[i] \in Nat /\ clock \in Nat /\ TTL \in Nat /\ MaxWait \in Nat
    BY SessionAssumption DEF SessionAssumption, IInv, TypeOK
  <2>2. sessions[i] # Null => sessions[i].expires_at \in Nat
    BY DEF IInv, TypeOK, Session
  <2>3. QED
    BY <1>1, <2>1, <2>2 DEF SessionOK
<1>4. QED
  BY <1>2, <1>3

(* A session that is created or renewed expires TTL seconds after the      *)
(* reading of a request at most MaxWait old.                               *)
LEMMA UseKeeps ==
    ASSUME IInv, NEW i \in SIDs, NEW now \in Nat, now <= clock, clock <= now + MaxWait,
           NEW row \in Session, row.expires_at = now + TTL,
           sessions' = [sessions EXCEPT ![i] = row],
           renewed' = [renewed EXCEPT ![i] = clock], clock' = clock
    PROVE  /\ sessions' \in [SIDs -> Session \cup {Null}]
           /\ renewed' \in [SIDs -> Nat]
           /\ \A j \in SIDs : SessionOK(j)'
<1>1. clock \in Nat /\ TTL \in Nat /\ MaxWait \in Nat
  BY SessionAssumption DEF SessionAssumption, IInv, TypeOK
<1>2. sessions' \in [SIDs -> Session \cup {Null}] /\ renewed' \in [SIDs -> Nat]
  BY <1>1 DEF IInv, TypeOK
<1>3. SessionOK(i)'
  <2>1. sessions'[i] = row /\ renewed'[i] = clock /\ row # Null
    BY SessionAssumption DEF SessionAssumption, IInv, TypeOK
  <2>2. QED
    BY <1>1, <2>1 DEF SessionOK
<1>4. ASSUME NEW j \in SIDs \ {i}
      PROVE  SessionOK(j)'
  <2>1. SessionOK(j) /\ sessions'[j] = sessions[j] /\ renewed'[j] = renewed[j]
    BY DEF IInv, TypeOK
  <2>2. QED
    BY <2>1 DEF SessionOK
<1>5. QED
  BY <1>2, <1>3, <1>4

(* A deletion on request forgets the session's uses.                       *)
LEMMA DeletionKeeps ==
    ASSUME IInv, NEW i \in SIDs, Deleted(i), clock' = clock
    PROVE  /\ sessions' \in [SIDs -> Session \cup {Null}]
           /\ renewed' \in [SIDs -> Nat]
           /\ \A j \in SIDs : SessionOK(j)'
<1>1. sessions' \in [SIDs -> Session \cup {Null}] /\ renewed' \in [SIDs -> Nat]
  BY DEF Deleted, IInv, TypeOK
<1>2. ASSUME NEW j \in SIDs
      PROVE  SessionOK(j)'
  <2>1. SessionOK(j) /\ clock \in Nat
    BY DEF IInv, TypeOK
  <2>2. /\ sessions'[j] = IF j = i THEN Null ELSE sessions[j]
        /\ renewed'[j] = IF j = i THEN 0 ELSE renewed[j]
    BY DEF Deleted, IInv, TypeOK
  <2>3. QED
    BY <2>1, <2>2 DEF SessionOK
<1>3. QED
  BY <1>1, <1>2

(* A step that touches no session.                                         *)
LEMMA SessionsStay ==
    ASSUME IInv, UNCHANGED <<clock, sessions, renewed>>
    PROVE  /\ sessions' \in [SIDs -> Session \cup {Null}]
           /\ renewed' \in [SIDs -> Nat]
           /\ \A i \in SIDs : SessionOK(i)'
BY DEF IInv, TypeOK, SessionOK

-----------------------------------------------------------------------------
(* The steps of one request.                                               *)

\* What a step of r makes of the sessions and of itself is in order.
InOrder(r) ==
    /\ clock' = clock
    /\ requests' = [requests EXCEPT ![r] = requests'[r]]
    /\ requests'[r] \in Request /\ RequestOK(requests[r])'
    /\ sessions' \in [SIDs -> Session \cup {Null}] /\ renewed' \in [SIDs -> Nat]
    /\ \A i \in SIDs : SessionOK(i)'

LEMMA OrderKept ==
    ASSUME IInv, Noticed, NEW r \in Requests, InOrder(r),
           admins' \in [Admins -> Admin \cup {Null}], issued' \subseteq SIDs
    PROVE  IInv'
<1>1. requests \in [Requests -> Request] /\ clock \in Nat
  BY DEF IInv, TypeOK
<1>2. \A s \in Requests : s # r => requests'[s] = requests[s]
  BY <1>1 DEF InOrder
<1>3. /\ superAt' \in [Admins -> Nat]
      /\ \A a \in Admins : SuperOK(a)'
  BY <1>1, SupersNoticed DEF InOrder
<1>4. \A s \in Requests : RequestOK(requests[s])'
  BY <1>2, RequestStays DEF InOrder
<1>5. requests' \in [Requests -> Request]
  BY <1>1 DEF InOrder
<1>6. TypeOK'
  BY <1>1, <1>3, <1>5 DEF TypeOK, InOrder
<1>7. QED
  BY <1>3, <1>4, <1>6 DEF IInv, InOrder

(* The state a step starts from.                                           *)
LEMMA Facts ==
    ASSUME IInv, NEW r \in Requests
    PROVE  /\ requests \in [Requests -> Request] /\ requests[r] \in Request
           /\ RequestOK(requests[r]) /\ requests[r].began \in Nat
           /\ clock \in Nat /\ TTL \in Nat /\ MaxWait \in Nat /\ issued \subseteq SIDs
           /\ admins \in [Admins -> Admin \cup {Null}]
           /\ sessions \in [SIDs -> Session \cup {Null}]
           /\ renewed \in [SIDs -> Nat]
           /\ superAt \in [Admins -> Nat]
BY SessionAssumption DEF SessionAssumption, IInv, TypeOK, Request

LEMMA ContinueIs ==
    ASSUME IInv, NEW r \in Requests, NEW q, Continue(r, q)
    PROVE  requests'[r] = q /\ requests' = [requests EXCEPT ![r] = requests'[r]]
BY Facts DEF Continue

LEMMA FinishOK ==
    ASSUME IInv, NEW r \in Requests, Finish(r)
    PROVE  /\ requests'[r] = IdleRequest
           /\ requests' = [requests EXCEPT ![r] = requests'[r]]
           /\ requests'[r] \in Request /\ RequestOK(requests[r])'
<1>1. requests'[r] = IdleRequest /\ requests' = [requests EXCEPT ![r] = requests'[r]]
  BY Facts DEF Finish, Continue
<1>2. QED
  BY <1>1, IdleOK DEF RequestOK, IdleRequest

(* A request goes on to a later statement with what it knows.              *)
LEMMA GoesOn ==
    ASSUME IInv, Noticed, clock' = clock, NEW r \in Requests,
           NEW phase \in Phases, Continue(r, [requests[r] EXCEPT !.phase = phase]),
           \/ requests[r].phase = "renew" /\ phase = "act"
           \/ requests[r].phase = "login" /\ phase = "insert"
    PROVE  /\ requests' = [requests EXCEPT ![r] = requests'[r]]
           /\ requests'[r] \in Request /\ RequestOK(requests[r])'
<1>1. /\ requests'[r] = [requests[r] EXCEPT !.phase = phase]
      /\ requests' = [requests EXCEPT ![r] = requests'[r]]
  BY Facts DEF Continue
<1>2. requests[r] \in Request /\ RequestOK(requests[r])
  BY Facts
<1>3. /\ requests'[r] \in Request /\ requests'[r].phase = phase
      /\ requests'[r].sid = requests[r].sid /\ requests'[r].actor = requests[r].actor
      /\ requests'[r].role = requests[r].role /\ requests'[r].began = requests[r].began
  BY ONLY <1>1, <1>2, phase \in Phases DEF Request
<1>4. \A a \in Admins : superAt'[a] >= superAt[a] /\ superAt'[a] \in Nat /\ superAt[a] \in Nat
  BY SupersNoticed, Facts
<1>5. RequestOK(requests[r])'
  BY <1>2, <1>3, <1>4, Facts DEF RequestOK
<1>6. QED
  BY <1>1, <1>3, <1>5

LEMMA BeginKeeps ==
    ASSUME IInv, Noticed, NEW r \in Requests, NEW i \in SIDs,
           NEW now \in clock - MaxWait .. clock, now > 0, Begin(r, i, now)
    PROVE  IInv'
<1> DEFINE q == [IdleRequest EXCEPT !.phase = "select", !.sid = i, !.began = now]
<1>1. now \in Nat /\ now <= clock /\ clock <= now + MaxWait
  BY Facts
<1>2. q \in Request
  BY <1>1 DEF Request, IdleRequest, Phases
<1>3. requests'[r] = q /\ requests' = [requests EXCEPT ![r] = requests'[r]]
  BY ContinueIs DEF Begin
<1>4. q.phase = "select" /\ q.sid = i /\ q.began = now
  BY DEF IdleRequest
<1> HIDE DEF q
<1>5. RequestOK(requests[r])'
  BY <1>1, <1>3, <1>4 DEF RequestOK, Begin
<1>6. InOrder(r)
  BY <1>1, <1>2, <1>3, <1>5, CleanUpKeeps, Facts DEF InOrder, Begin
<1>7. QED
  BY <1>6, OrderKept, Facts DEF Begin

LEMMA LoginKeeps ==
    ASSUME IInv, Noticed, NEW r \in Requests, NEW a \in Admins,
           NEW now \in clock - MaxWait .. clock, now > 0, Login(r, a, now)
    PROVE  IInv'
<1> DEFINE q == [IdleRequest EXCEPT !.phase = "login", !.actor = a, !.began = now]
<1>1. now \in Nat /\ now <= clock /\ clock <= now + MaxWait
  BY Facts
<1>2. q \in Request
  BY <1>1 DEF Request, IdleRequest, Phases
<1>3. requests'[r] = q /\ requests' = [requests EXCEPT ![r] = requests'[r]]
  BY ContinueIs DEF Login
<1>4. q.phase = "login" /\ q.actor = a /\ q.began = now
  BY DEF IdleRequest
<1> HIDE DEF q
<1>5. RequestOK(requests[r])'
  BY <1>1, <1>3, <1>4 DEF RequestOK, Login
<1>6. InOrder(r)
  BY <1>2, <1>3, <1>5, SessionsStay DEF InOrder, Login
<1>7. QED
  BY <1>6, OrderKept, Facts DEF Login

(* The session a request is authenticated by is that of an enabled         *)
(* administrator with the role that is read.                               *)
LEMMA ValidSession ==
    ASSUME IInv, NEW i \in SIDs, NEW now, Valid(i, now)
    PROVE  /\ sessions[i] \in Session /\ sessions[i] # Null /\ sessions[i].expires_at >= now
           /\ sessions[i].username \in Admins
           /\ Joined(i, now) = admins[sessions[i].username]
           /\ Joined(i, now).role \in Roles
           /\ Joined(i, now).role = "super" => superAt[sessions[i].username] = clock
<1>1. Joined(i, now) # Null /\ Joined(i, now).status = 1
  BY DEF Valid
<1>2. /\ sessions[i] # Null /\ sessions[i].expires_at >= now
      /\ Joined(i, now) = admins[sessions[i].username]
  BY <1>1 DEF Joined
<1>3. sessions[i] \in Session /\ sessions[i].username \in Admins
  BY <1>2 DEF IInv, TypeOK, Session
<1>4. admins[sessions[i].username] \in Admin
  BY <1>1, <1>2, <1>3 DEF IInv, TypeOK
<1>5. Joined(i, now).role \in Roles
  BY <1>2, <1>4 DEF Admin
<1>6. Joined(i, now).role = "super" => superAt[sessions[i].username] = clock
  BY <1>1, <1>2, <1>3 DEF IInv, SuperOK, IsSuper
<1>7. QED
  BY <1>2, <1>3, <1>5, <1>6

LEMMA AuthenticateKeeps ==
    ASSUME IInv, Noticed, NEW r \in Requests, NEW now, Authenticate(r, now)
    PROVE  IInv'
<1> DEFINE i == requests[r].sid
           q == [requests[r] EXCEPT !.phase = "renew", !.actor = sessions[i].username,
                                    !.role = Joined(i, now).role]
<1>1. /\ requests[r].phase = "select" /\ Valid(i, now) /\ Continue(r, q)
      /\ UNCHANGED <<clock, admins, sessions, issued, renewed>>
  BY DEF Authenticate
<1>2. i \in SIDs
  BY <1>1, Facts DEF RequestOK
<1>3. /\ sessions[i].username \in Admins /\ Joined(i, now).role \in Roles
      /\ Joined(i, now).role = "super" => superAt[sessions[i].username] = clock
  BY <1>1, <1>2, ValidSession
<1>4. requests[r] \in Request /\ RequestOK(requests[r])
  BY Facts
<1>5. /\ q \in Request /\ q.phase = "renew" /\ q.sid = i /\ q.began = requests[r].began
      /\ q.actor = sessions[i].username /\ q.role = Joined(i, now).role
  BY ONLY <1>3, <1>4 DEF Request, Phases
<1>6. requests'[r] = q /\ requests' = [requests EXCEPT ![r] = requests'[r]]
  BY <1>1, Facts DEF Continue
<1> HIDE DEF q
<1>7. \A a \in Admins : superAt'[a] >= superAt[a] /\ superAt'[a] \in Nat /\ superAt[a] \in Nat
  BY <1>1, SupersNoticed, Facts
<1>8. RequestOK(requests[r])'
  BY <1>1, <1>2, <1>3, <1>4, <1>5, <1>6, <1>7, Facts DEF RequestOK
<1>9. InOrder(r)
  BY <1>1, <1>5, <1>6, <1>8, SessionsStay DEF InOrder
<1>10. QED
  BY <1>1, <1>9, OrderKept, Facts

LEMMA QuietKeeps ==
    ASSUME IInv, Noticed, NEW r \in Requests,
           Leave(r) \/ \E now \in Readings(r) : Unauthorized(r, now)
    PROVE  IInv'
<1>1. Finish(r) /\ UNCHANGED <<clock, admins, sessions, issued, renewed>>
  BY DEF Leave, Unauthorized
<1>2. InOrder(r)
  BY <1>1, FinishOK, SessionsStay DEF InOrder
<1>3. QED
  BY <1>1, <1>2, OrderKept, Facts

(* The UPDATE renews a session that is there, or finds none.               *)
LEMMA RenewKeeps ==
    ASSUME IInv, Noticed, NEW r \in Requests, NEW now \in Readings(r), Renew(r, now)
    PROVE  IInv'
<1> DEFINE i == requests[r].sid
<1>1. /\ requests[r].phase = "renew" /\ UNCHANGED <<clock, admins, issued>>
      /\ sessions' = [sessions EXCEPT ![i] = Renewed(r, now)]
      /\ renewed' = [renewed EXCEPT ![i] = IF sessions[i] = Null THEN renewed[i] ELSE clock]
      /\ Continue(r, [requests[r] EXCEPT !.phase = "act"])
  BY DEF Renew
<1>2. PICK j \in SIDs : j = i
  BY <1>1, Facts DEF RequestOK
<1>3. now \in Nat /\ now <= clock /\ clock <= now + MaxWait
  BY <1>1, Facts DEF Readings, RequestOK
<1>4. /\ sessions' \in [SIDs -> Session \cup {Null}] /\ renewed' \in [SIDs -> Nat]
      /\ \A k \in SIDs : SessionOK(k)'
  <2>1. CASE sessions[j] = Null
    <3>1. Renewed(r, now) = Null
      BY <1>2, <2>1 DEF Renewed
    <3>2. sessions' = sessions /\ renewed' = renewed
      BY <1>1, <1>2, <2>1, <3>1, Facts
    <3>3. QED
      BY <1>1, <3>2, SessionsStay
  <2>2. CASE sessions[j] # Null
    <3>1. sessions[j] \in Session
      BY <2>2, Facts
    <3> DEFINE fresh == [sessions[j] EXCEPT !.expires_at = now + TTL]
    <3>2. fresh \in Session /\ fresh.expires_at = now + TTL
      BY <1>3, <3>1, Facts DEF Session
    <3>3. PICK row \in Session : row = fresh /\ row.expires_at = now + TTL
      BY <3>2
    <3>4. sessions' = [sessions EXCEPT ![j] = row] /\ renewed' = [renewed EXCEPT ![j] = clock]
      BY <1>1, <1>2, <2>2, <3>3 DEF Renewed
    <3>5. QED
      BY <1>1, <1>3, <3>3, <3>4, UseKeeps
  <2>3. QED
    BY <2>1, <2>2
<1>5. InOrder(r)
  BY <1>1, <1>4, GoesOn DEF InOrder, Phases
<1>6. QED
  BY <1>1, <1>5, OrderKept, Facts

LEMMA DeleteKeeps ==
    ASSUME IInv, Noticed, NEW r \in Requests, Logout(r) \/ DeleteSession(r)
    PROVE  IInv'
<1>1. Finish(r) /\ UNCHANGED <<clock, admins, issued>>
  BY DEF Logout, DeleteSession
<1>2. \E i \in SIDs : Deleted(i)
  BY Facts DEF Logout, DeleteSession, Writing, Acting, RequestOK
<1>3. InOrder(r)
  BY <1>1, <1>2, FinishOK, DeletionKeeps DEF InOrder
<1>4. QED
  BY <1>1, <1>3, OrderKept, Facts

LEMMA ListKeeps ==
    ASSUME IInv, Noticed, NEW r \in Requests, NEW i \in SIDs, NEW now \in Readings(r),
           ListOwn(r, i, now)
    PROVE  IInv'
<1> DEFINE q == [requests[r] EXCEPT !.phase = "delete", !.target = i]
<1>1. /\ requests[r].phase = "act" /\ sessions' = CleanedUp(now)
      /\ UNCHANGED <<clock, admins, issued, renewed>>
      /\ Continue(r, q) \/ Finish(r)
  BY DEF ListOwn, Writing, Acting
<1>2. now \in Nat /\ now <= clock
  BY Facts DEF Readings
<1>3. /\ requests' = [requests EXCEPT ![r] = requests'[r]]
      /\ requests'[r] \in Request /\ RequestOK(requests[r])'
  <2>1. CASE Finish(r)
    BY <2>1, FinishOK
  <2>2. CASE Continue(r, q)
    <3>1. requests[r] \in Request /\ RequestOK(requests[r])
      BY Facts
    <3>2. /\ q \in Request /\ q.phase = "delete" /\ q.target = i
          /\ q.sid = requests[r].sid /\ q.actor = requests[r].actor
          /\ q.role = requests[r].role /\ q.began = requests[r].began
      BY ONLY <3>1, i \in SIDs DEF Request, Phases
    <3>3. requests'[r] = q /\ requests' = [requests EXCEPT ![r] = requests'[r]]
      BY <2>2, Facts DEF Continue
    <3> HIDE DEF q
    <3>4. \A a \in Admins :
             superAt'[a] >= superAt[a] /\ superAt'[a] \in Nat /\ superAt[a] \in Nat
      BY <1>1, SupersNoticed, Facts
    <3>5. RequestOK(requests[r])'
      BY <1>1, <3>1, <3>2, <3>3, <3>4, Facts DEF RequestOK
    <3>6. QED
      BY <3>2, <3>3, <3>5
  <2>3. QED
    BY <1>1, <2>1, <2>2
<1>4. InOrder(r)
  BY <1>1, <1>2, <1>3, CleanUpKeeps, Facts DEF InOrder
<1>5. QED
  BY <1>1, <1>4, OrderKept, Facts

LEMMA ManageKeeps ==
    ASSUME IInv, Noticed, NEW r \in Requests, NEW a \in Managed,
           \/ \E role \in Roles : CreateAdmin(r, a, role) \/ SetAdminRole(r, a, role)
           \/ \E status \in {0, 1} : SetAdminStatus(r, a, status)
    PROVE  IInv'
<1>1. Finish(r) /\ UNCHANGED <<clock, sessions, issued, renewed>>
  BY DEF CreateAdmin, SetAdminRole, SetAdminStatus, WriteAdmins
<1>2. InOrder(r)
  BY <1>1, FinishOK, SessionsStay DEF InOrder
<1>3. a \in Admins
  BY SessionAssumption DEF SessionAssumption
<1>4. admins' \in [Admins -> Admin \cup {Null}]
  <2>1. ASSUME NEW role \in Roles, CreateAdmin(r, a, role)
        PROVE  admins' \in [Admins -> Admin \cup {Null}]
    BY <1>3, <2>1, UpsertType, Facts DEF CreateAdmin, WriteAdmins
  <2>2. ASSUME NEW role \in Roles, SetAdminRole(r, a, role)
        PROVE  admins' \in [Admins -> Admin \cup {Null}]
    <3>1. admins[a] \in Admin /\ admins' = [admins EXCEPT ![a].role = role]
      BY <1>3, <2>2, Facts DEF SetAdminRole, WriteAdmins
    <3>2. [admins[a] EXCEPT !.role = role] \in Admin
      BY <3>1 DEF Admin
    <3>3. QED
      BY <3>1, <3>2, Facts
  <2>3. ASSUME NEW status \in {0, 1}, SetAdminStatus(r, a, status)
        PROVE  admins' \in [Admins -> Admin \cup {Null}]
    <3>1. admins[a] \in Admin /\ admins' = [admins EXCEPT ![a].status = status]
      BY <1>3, <2>3, Facts DEF SetAdminStatus, WriteAdmins
    <3>2. [admins[a] EXCEPT !.status = status] \in Admin
      BY <3>1 DEF Admin
    <3>3. QED
      BY <3>1, <3>2, Facts
  <2>4. QED
    BY <2>1, <2>2, <2>3
<1>5. QED
  BY <1>1, <1>2, <1>4, OrderKept, Facts

LEMMA LoginCleanUpKeeps ==
    ASSUME IInv, Noticed, NEW r \in Requests, NEW now \in Readings(r), LoginCleanUp(r, now)
    PROVE  IInv'
<1>1. /\ requests[r].phase = "login" /\ sessions' = CleanedUp(now)
      /\ Continue(r, [requests[r] EXCEPT !.phase = "insert"])
      /\ UNCHANGED <<clock, admins, issued, renewed>>
  BY DEF LoginCleanUp
<1>2. now \in Nat /\ now <= clock
  BY Facts DEF Readings
<1>3. InOrder(r)
  BY <1>1, <1>2, GoesOn, CleanUpKeeps, Facts DEF InOrder, Phases
<1>4. QED
  BY <1>1, <1>3, OrderKept, Facts

LEMMA CreateKeeps ==
    ASSUME IInv, Noticed, NEW r \in Requests, NEW i \in SIDs, NEW now \in Readings(r),
           CreateSession(r, i, now)
    PROVE  IInv'
<1>1. /\ requests[r].phase = "insert" /\ Finish(r) /\ UNCHANGED <<clock, admins>>
      /\ issued' = issued \cup {i} /\ renewed' = [renewed EXCEPT ![i] = clock]
      /\ sessions' = [sessions EXCEPT ![i] =
                         [username |-> requests[r].actor, expires_at |-> now + TTL]]
  BY DEF CreateSession
<1>2. now \in Nat /\ now <= clock /\ clock <= now + MaxWait
  BY <1>1, Facts DEF Readings, RequestOK
<1>3. requests[r].actor \in Admins
  BY <1>1, Facts DEF RequestOK
<1> DEFINE fresh == [username |-> requests[r].actor, expires_at |-> now + TTL]
<1>4. fresh \in Session /\ fresh.expires_at = now + TTL
  BY <1>2, <1>3, Facts DEF Session
<1>5. PICK row \in Session : row = fresh /\ row.expires_at = now + TTL
  BY <1>4
<1>6. InOrder(r)
  BY <1>1, <1>2, <1>5, UseKeeps, FinishOK DEF InOrder
<1>7. QED
  BY <1>1, <1>6, OrderKept, Facts

-----------------------------------------------------------------------------
(* Time, the restart, and the whole step.                                  *)

LEMMA TickKeeps ==
    ASSUME IInv, Noticed, Tick
    PROVE  IInv'
<1>1. /\ clock' = clock + 1 /\ clock \in Nat /\ clock' \in Nat /\ clock' >= clock
      /\ UNCHANGED <<admins, sessions, requests, issued, renewed>>
      /\ MaxWait \in Nat /\ TTL \in Nat
  BY SessionAssumption DEF SessionAssumption, Tick, IInv, TypeOK
<1>2. /\ superAt' \in [Admins -> Nat]
      /\ \A a \in Admins : SuperOK(a)' /\ superAt'[a] >= superAt[a]
  BY <1>1, SupersNoticed
<1>3. TypeOK'
  BY <1>1, <1>2 DEF IInv, TypeOK
<1>4. ASSUME NEW i \in SIDs
      PROVE  SessionOK(i)'
  <2>1. SessionOK(i) /\ renewed[i] \in Nat
    BY DEF IInv, TypeOK
  <2>2. QED
    BY <1>1, <2>1 DEF SessionOK
<1>5. ASSUME NEW r \in Requests
      PROVE  RequestOK(requests[r])'
  <2>1. /\ RequestOK(requests[r]) /\ requests[r].began \in Nat
        /\ requests[r].phase # "idle" => clock < requests[r].began + MaxWait
    BY Facts DEF Tick
  <2>2. \A a \in Admins : superAt'[a] \in Nat /\ superAt[a] \in Nat
    BY <1>2, Facts
  <2>3. QED
    BY <1>1, <1>2, <2>1, <2>2 DEF RequestOK
<1>6. QED
  BY <1>2, <1>3, <1>4, <1>5 DEF IInv

LEMMA RestartKeeps ==
    ASSUME IInv, Noticed, Restart
    PROVE  IInv'
<1>1. /\ UNCHANGED <<clock, sessions, issued, renewed>>
      /\ requests' = [r \in Requests |-> IdleRequest] /\ admins' = Bootstrapped(admins)
      /\ clock \in Nat
  BY DEF Restart, IInv, TypeOK
<1>2. admins' \in [Admins -> Admin \cup {Null}]
  BY <1>1, BootstrapType DEF IInv, TypeOK
<1>3. superAt' \in [Admins -> Nat] /\ \A a \in Admins : SuperOK(a)'
  BY <1>1, SupersNoticed
<1>4. \A r \in Requests : RequestOK(requests[r])'
  BY <1>1 DEF RequestOK, IdleRequest
<1>5. TypeOK'
  BY <1>1, <1>2, <1>3, IdleOK DEF IInv, TypeOK
<1>6. QED
  BY <1>1, <1>3, <1>4, <1>5, SessionsStay DEF IInv

LEMMA StepInv == IInv /\ [Next]_vars => IInv'
<1> SUFFICES ASSUME IInv, [Next]_vars PROVE IInv'
  OBVIOUS
<1>1. CASE UNCHANGED vars
  BY <1>1 DEF vars, IInv, TypeOK, RequestOK, SessionOK, SuperOK
<1>2. CASE Next
  <2>1. Noticed
    BY <1>2 DEF Next, Noticed
  <2>2. ASSUME NEW r \in Requests, RequestStep(r)
        PROVE  IInv'
    BY <2>1, <2>2, BeginKeeps, LoginKeeps, AuthenticateKeeps, QuietKeeps, RenewKeeps,
       LoginCleanUpKeeps, CreateKeeps, ListKeeps, DeleteKeeps, ManageKeeps DEF RequestStep
  <2>3. QED
    BY <1>2, <2>1, <2>2, TickKeeps, RestartKeeps DEF Next
<1>3. QED
  BY <1>1, <1>2

LEMMA AlwaysIInv == Spec => []IInv
BY InitInv, StepInv, PTL DEF Spec

-----------------------------------------------------------------------------
(* What is shown of every behaviour.                                       *)

(* Administrators, sessions and requests keep their types: no statement    *)
(* uses what an earlier one of its request did not read.                   *)
THEOREM TypeCorrect == Spec => []TypeOK
<1>1. IInv => TypeOK
  BY DEF IInv
<1>2. QED
  BY <1>1, AlwaysIInv, PTL

(* A session that nobody deletes is kept for TTL seconds after each use,   *)
(* less the seconds a request lasts, in every order of late renewals and   *)
(* clean-ups (store.go:501-504, 549-557).                                  *)
THEOREM UsedSessionsKept == Spec => []UsedSessionsLast
<1>1. IInv => UsedSessionsLast
  BY DEF IInv, SessionOK, UsedSessionsLast
<1>2. QED
  BY <1>1, AlwaysIInv, PTL

(* No statement but the INSERT of a new id makes a session.                *)
LEMMA NoRevival ==
    ASSUME IInv, [Next]_vars, NEW i \in issued, sessions[i] = Null
    PROVE  sessions'[i] = Null
<1>1. i \in SIDs /\ sessions \in [SIDs -> Session \cup {Null}]
  BY DEF IInv, TypeOK
<1>2. CASE sessions' = sessions
  BY <1>2
<1>3. ASSUME NEW now, sessions' = CleanedUp(now)
      PROVE  sessions'[i] = Null
  BY <1>1, <1>3 DEF CleanedUp
<1>4. ASSUME NEW j, Deleted(j)
      PROVE  sessions'[i] = Null
  BY <1>1, <1>4 DEF Deleted
<1>5. ASSUME NEW r \in Requests, NEW now \in Readings(r), Renew(r, now)
      PROVE  sessions'[i] = Null
  <2>1. sessions' = [sessions EXCEPT ![requests[r].sid] = Renewed(r, now)]
    BY <1>5 DEF Renew
  <2>2. requests[r].sid = i => Renewed(r, now) = Null
    BY DEF Renewed
  <2>3. QED
    BY <1>1, <2>1, <2>2
<1>6. ASSUME NEW r \in Requests, NEW j \in SIDs, NEW now \in Readings(r), CreateSession(r, j, now)
      PROVE  sessions'[i] = Null
  <2>1. j # i /\ sessions' = [sessions EXCEPT ![j] =
                   [username |-> requests[r].actor, expires_at |-> now + TTL]]
    BY <1>6 DEF CreateSession
  <2>2. QED
    BY <1>1, <2>1
<1>7. ASSUME NEW r \in Requests, RequestStep(r)
      PROVE  sessions'[i] = Null
  <2>1. CASE \E j \in SIDs, now \in clock - MaxWait .. clock : now > 0 /\ Begin(r, j, now)
    BY <1>3, <2>1 DEF Begin
  <2>2. CASE \E a \in Admins, now \in clock - MaxWait .. clock : now > 0 /\ Login(r, a, now)
    BY <1>2, <2>2 DEF Login
  <2>3. ASSUME NEW now \in Readings(r), NEW j \in SIDs,
               \/ Authenticate(r, now) \/ Unauthorized(r, now) \/ Renew(r, now)
               \/ LoginCleanUp(r, now)
               \/ CreateSession(r, j, now) \/ ListOwn(r, j, now)
        PROVE  sessions'[i] = Null
    BY <1>2, <1>3, <1>5, <1>6, <2>3
       DEF Authenticate, Unauthorized, LoginCleanUp, ListOwn
  <2>4. CASE Logout(r) \/ DeleteSession(r) \/ Leave(r)
    BY <1>2, <1>4, <2>4 DEF Logout, DeleteSession, Leave
  <2>5. CASE \/ \E a \in Managed, role \in Roles :
                   CreateAdmin(r, a, role) \/ SetAdminRole(r, a, role)
             \/ \E a \in Managed, status \in {0, 1} : SetAdminStatus(r, a, status)
    BY <1>2, <2>5 DEF CreateAdmin, SetAdminRole, SetAdminStatus, WriteAdmins
  <2>6. QED
    BY <1>1, <1>7, <2>1, <2>2, <2>3, <2>4, <2>5 DEF RequestStep
<1>8. CASE Tick \/ Restart \/ UNCHANGED vars
  BY <1>2, <1>8 DEF Tick, Restart, vars
<1>9. QED
  BY <1>7, <1>8 DEF Next

(* A session that has ended, by logout, deletion or expiry, is never alive *)
(* again, whatever requests were under way with it (store.go:549-557).     *)
THEOREM EndedForGood == Spec => SessionsEnd
<1>1. IInv /\ [Next]_vars => [\A i \in issued : sessions[i] = Null => sessions'[i] = Null]_vars
  BY NoRevival
<1>2. QED
  BY <1>1, AlwaysIInv, PTL DEF Spec, SessionsEnd

(* A request is authenticated only by a session used within the last TTL   *)
(* seconds and the seconds a request lasts (store.go:536-545).             *)
THEOREM IdleForGood == Spec => IdleSessionsEnd
<1>1. ASSUME IInv, NEW r \in Requests, NEW now \in Readings(r), Authenticate(r, now)
      PROVE  clock <= renewed[requests[r].sid] + TTL + MaxWait
  <2>1. /\ requests[r].phase = "select" /\ Valid(requests[r].sid, now)
    BY <1>1 DEF Authenticate
  <2>2. requests[r].sid \in SIDs /\ clock <= requests[r].began + MaxWait
    BY <1>1, <2>1, Facts DEF RequestOK
  <2>3. PICK i \in SIDs : i = requests[r].sid
    BY <2>2
  <2>4. sessions[i] \in Session /\ sessions[i] # Null /\ sessions[i].expires_at >= now
    BY <1>1, <2>1, <2>3, ValidSession
  <2>5. sessions[i].expires_at <= renewed[i] + TTL /\ sessions[i].expires_at \in Nat
    BY <1>1, <2>4 DEF IInv, SessionOK, Session
  <2>6. now \in Nat /\ now >= requests[r].began /\ renewed[i] \in Nat
    BY <1>1, Facts DEF Readings
  <2>7. QED
    BY <1>1, <2>2, <2>3, <2>4, <2>5, <2>6, Facts
<1>2. IInv => \A r \in Requests : \A now \in Readings(r) :
                 Authenticate(r, now) => clock <= renewed[requests[r].sid] + TTL + MaxWait
  BY <1>1
<1>3. QED
  BY <1>2, AlwaysIInv, PTL DEF IdleSessionsEnd

(* Only the process at its start, and requests of an administrator who was *)
(* an enabled super while the request lasted, change administrators        *)
(* (api.go:137-147, store.go:536-548).                                     *)
THEOREM ManagedBySupers == Spec => OnlySupersManage
<1> DEFINE Managing == admins' # admins =>
               \/ Restart
               \/ \E r \in Requests : /\ Writing(r) /\ requests'[r] = IdleRequest
                                      /\ clock <= superAt[requests[r].actor] + MaxWait
<1>1. ASSUME IInv, NEW r \in Requests, NEW table, WriteAdmins(r, table)
      PROVE  /\ Writing(r) /\ requests'[r] = IdleRequest
             /\ clock <= superAt[requests[r].actor] + MaxWait
  <2>1. Writing(r) /\ Finish(r)
    BY <1>1 DEF WriteAdmins
  <2>2. /\ requests[r].actor \in Admins /\ requests[r].began <= superAt[requests[r].actor]
        /\ clock <= requests[r].began + MaxWait
    BY <1>1, <2>1, Facts DEF Writing, Acting, RequestOK
  <2>3. superAt[requests[r].actor] \in Nat
    BY <1>1, <2>2, Facts
  <2>4. QED
    BY <1>1, <2>1, <2>2, <2>3, FinishOK, Facts
<1>2. ASSUME IInv, NEW r \in Requests, RequestStep(r), admins' # admins
      PROVE  \E table : WriteAdmins(r, table)
  BY <1>2 DEF RequestStep, Begin, Login, Authenticate, Unauthorized, Renew, LoginCleanUp,
     CreateSession, ListOwn, Logout, DeleteSession, Leave, CreateAdmin, SetAdminRole,
     SetAdminStatus
<1>3. IInv /\ [Next]_vars => [Managing]_vars
  <2>1. SUFFICES ASSUME IInv, Next, admins' # admins
                 PROVE  Managing
    OBVIOUS
  <2>2. CASE Tick
    BY <2>1, <2>2 DEF Tick
  <2>3. CASE Restart
    BY <2>3
  <2>4. CASE \E r \in Requests : RequestStep(r)
    BY <1>1, <1>2, <2>1, <2>4
  <2>5. QED
    BY <2>1, <2>2, <2>3, <2>4 DEF Next
<1>4. QED
  BY <1>3, AlwaysIInv, PTL DEF Spec, OnlySupersManage
=============================================================================
