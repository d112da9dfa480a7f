-------------------------- MODULE ProxyAccessProofs --------------------------
(***************************************************************************)
(* Theorems about ProxyAccess, for every number of users, addresses and    *)
(* connections, every window and every amount of waiting: its invariants,  *)
(* and that it implements AccessLedger.                                    *)
(***************************************************************************)
EXTENDS ProxyAccessRefinement, FiniteSetTheorems, TLAPS

(* What a connection knows in each phase.                                  *)
ConnInv ==
    \A c \in Conns :
      /\ Waiting(c) => /\ conns[c].user \in Users /\ conns[c].ip \in IPs
                       /\ conns[c].secret \in Secrets
                       /\ conns[c].now <= clock
                       /\ clock <= conns[c].now + MaxWait
      /\ conns[c].phase = "authorize" => /\ conns[c].cutoff <= clock - Window
                                         /\ conns[c].now - Window <= conns[c].cutoff
      /\ conns[c].phase \in {"dial", "copy", "charge"} => conns[c].user \in Users
      /\ conns[c].phase = "charge" => conns[c].bytes <= MaxBytes

-----------------------------------------------------------------------------
(* Lemmas about the store's operators.                                     *)

(* A row of users that exists is a record of columns.                      *)
LEMMA ExistingRow ==
    ASSUME TypeOK, NEW u \in Users, Exists(u)
    PROVE  users[u] \in UserRow
BY DEF TypeOK, StoreTypeOK, Exists

(* The purge keeps the table's type.                                       *)
LEMMA PurgedType ==
    ASSUME TypeOK, NEW cutoff \in Int
    PROVE  Purged(cutoff) \in [Users -> [IPs -> DeviceRow \cup {Null}]]
BY DEF TypeOK, StoreTypeOK, Purged

(* The row a grant writes is a row, with the time of the grant.             *)
LEMMA SeenAtType ==
    ASSUME NEW old \in DeviceRow \cup {Null}, NEW now \in Nat
    PROVE  SeenAt(old, now) \in DeviceRow /\ SeenAt(old, now).last_seen = now
BY DEF SeenAt, DeviceRow

(* The row an INSERT writes is a row.                                      *)
LEMMA NewRowType ==
    ASSUME NEW pw \in Secrets, NEW e \in Nat, NEW q \in Nat, NEW n \in Nat
    PROVE  NewRow(pw, e, q, n) \in UserRow
BY DEF NewRow, UserRow, Password, Hashed

(* The idle connection is a connection.                                    *)
LEMMA IdleConnType == IdleConn \in Conn
BY DEF IdleConn, Conn, Phases

(* The connection records the steps write.                                 *)
LEMMA ConnRecords ==
    ASSUME NEW q \in Conn
    PROVE  /\ \A k \in Int : [q EXCEPT !.phase = "authorize", !.cutoff = k] \in Conn
           /\ \A n \in Nat : [q EXCEPT !.phase = "charge", !.bytes = n] \in Conn
           /\ \A u \in Users : [q EXCEPT !.phase = "dial", !.user = u] \in Conn
           /\ [q EXCEPT !.phase = "copy"] \in Conn
<1>1. ASSUME NEW k \in Int PROVE [q EXCEPT !.phase = "authorize", !.cutoff = k] \in Conn
  BY DEF Conn, Phases
<1>2. ASSUME NEW n \in Nat PROVE [q EXCEPT !.phase = "charge", !.bytes = n] \in Conn
  BY DEF Conn, Phases
<1>3. ASSUME NEW u \in Users PROVE [q EXCEPT !.phase = "dial", !.user = u] \in Conn
  BY DEF Conn, Phases
<1>4. [q EXCEPT !.phase = "copy"] \in Conn
  BY DEF Conn, Phases
<1>5. QED
  BY <1>1, <1>2, <1>3, <1>4

(* MaxOf is an upper bound.                                                *)
LEMMA MaxOfType ==
    ASSUME NEW a \in Nat, NEW b \in Nat
    PROVE  MaxOf(a, b) \in Nat /\ MaxOf(a, b) >= a /\ MaxOf(a, b) >= b
BY DEF MaxOf

(* UPDATE of one row with a row of the right type.                         *)
LEMMA UpdateUserType ==
    ASSUME TypeOK, NEW u \in Users, NEW row \in UserRow, UpdateUser(u, row)
    PROVE  StoreTypeOK'
BY DEF TypeOK, StoreTypeOK, UpdateUser

-----------------------------------------------------------------------------
(* Type correctness, together with what each phase of a connection knows.  *)

Typed == TypeOK /\ ConnInv

(* Every initial state is typed.                                           *)
LEMMA InitTyped == Init => Typed
<1> SUFFICES ASSUME Init PROVE Typed
  OBVIOUS
<1> USE AccessAssumption, StoreAssumption DEF AccessAssumption, StoreAssumption
<1>1. StoreTypeOK
  BY DEF Init, StoreTypeOK, DeviceRow
<1>2. conns \in [Conns -> Conn]
  BY IdleConnType DEF Init
<1>3. lastGrant \in [Users -> [IPs -> Nat]]
  BY DEF Init
<1>4. ceiling \in [Users -> Nat]
  <2>1. ASSUME NEW u \in Users, Exists(u) PROVE users[u].quota_bytes \in Nat
    BY <2>1 DEF Init, Exists, UserRow
  <2>2. QED
    BY <2>1 DEF Init
<1>5. ConnInv
  BY DEF Init, ConnInv, IdleConn, Waiting
<1>6. QED
  BY <1>1, <1>2, <1>3, <1>4, <1>5 DEF Typed, TypeOK

(* The steps of one connection.                                            *)
LEMMA ConnStepTyped ==
    ASSUME Typed, NEW c \in Conns, ConnStep(c)
    PROVE  Typed'
<1> USE AccessAssumption, StoreAssumption DEF Typed, AccessAssumption, StoreAssumption
<1>0. /\ clock \in Nat /\ conns \in [Conns -> Conn]
      /\ conns[c] \in Conn /\ Window \in Nat
  BY DEF TypeOK, StoreTypeOK
<1>1. ASSUME NEW u \in Users, NEW pw \in Secrets, NEW ip \in IPs, Validate(c, u, pw, ip)
      PROVE  Typed'
  <2>1. TypeOK'
    BY <1>0, <1>1 DEF Validate, TypeOK, StoreTypeOK, Conn, Phases
  <2>2. ConnInv'
    BY <1>0, <1>1 DEF Validate, TypeOK, StoreTypeOK, Conn, Phases, ConnInv, Waiting
  <2>3. QED
    BY <2>1, <2>2
<1>2. ASSUME ReadCutoff(c)
      PROVE  Typed'
  <2>1. TypeOK'
    <3>1. [conns[c] EXCEPT !.phase = "authorize", !.cutoff = clock - Window] \in Conn
      <4>1. clock - Window \in Int
        BY <1>0
      <4>2. QED
        BY <1>0, <4>1, ConnRecords
    <3>2. QED
      BY <1>0, <1>2, <3>1 DEF ReadCutoff, TypeOK, StoreTypeOK
  <2>2. ConnInv'
    BY <1>0, <1>2 DEF ReadCutoff, TypeOK, StoreTypeOK, Conn, Phases, ConnInv, Waiting
  <2>3. QED
    BY <2>1, <2>2
<1>3. ASSUME Grant(c)
      PROVE  Typed'
  <2> DEFINE q == conns[c]
  <2>1. /\ q.user \in Users /\ q.ip \in IPs /\ q.secret \in Secrets
        /\ q.now \in Nat /\ q.cutoff \in Int
    BY <1>0, <1>3 DEF Grant, ConnInv, Waiting, Conn
  <2>2. Exists(q.user)
    BY <1>3 DEF Grant, AuthorizeGrant, Authorized
  <2>3. users[q.user] \in UserRow
    BY <2>1, <2>2, ExistingRow
  <2>4. [users[q.user] EXCEPT !.password = Hashed(q.secret)] \in UserRow
    BY <2>1, <2>3 DEF UserRow, Password, Hashed
  <2>5. users' \in [Users -> UserRow \cup {Null}]
    <3>1. users' = [users EXCEPT ![q.user] = [users[q.user] EXCEPT !.password = Hashed(q.secret)]]
      BY <1>3, <2>1 DEF Grant, AuthorizeGrant
    <3>2. QED
      BY <3>1, <2>4 DEF TypeOK, StoreTypeOK
  <2>6. active_ips' \in [Users -> [IPs -> DeviceRow \cup {Null}]]
    <3>1. Purged(q.cutoff) \in [Users -> [IPs -> DeviceRow \cup {Null}]]
      BY <2>1, PurgedType
    <3>2. SeenAt(Purged(q.cutoff)[q.user][q.ip], q.now) \in DeviceRow
      <4>1. Purged(q.cutoff)[q.user][q.ip] \in DeviceRow \cup {Null}
        BY <2>1, <3>1
      <4>2. QED
        BY <2>1, <4>1, SeenAtType
    <3>3. active_ips' = [Purged(q.cutoff) EXCEPT
             ![q.user][q.ip] = SeenAt(Purged(q.cutoff)[q.user][q.ip], q.now)]
      BY <1>3 DEF Grant, AuthorizeGrant
    <3>4. QED
      BY <2>1, <3>1, <3>2, <3>3
  <2>7. lastGrant' \in [Users -> [IPs -> Nat]] /\ ceiling' \in [Users -> Nat]
    BY <1>0, <1>3, <2>1 DEF Grant, TypeOK
  <2>8. clock' = clock
    BY <1>3 DEF Grant, AuthorizeGrant
  <2>9. conns' = [conns EXCEPT ![c] = [IdleConn EXCEPT !.phase = "dial", !.user = q.user]]
    BY <1>3 DEF Grant
  <2>10. conns' \in [Conns -> Conn]
    BY <1>0, <2>1, <2>9, IdleConnType, ConnRecords
  <2>11. ConnInv'
    BY <1>0, <2>1, <2>8, <2>9 DEF ConnInv, Waiting, IdleConn
  <2>12. QED
    BY <1>0, <2>5, <2>6, <2>7, <2>8, <2>10, <2>11 DEF TypeOK, StoreTypeOK
<1>4. ASSUME conns' = [conns EXCEPT ![c] = IdleConn],
             UNCHANGED <<clock, users, active_ips, lastGrant, ceiling>>
      PROVE  Typed'
  <2>1. TypeOK'
    BY <1>0, <1>4, IdleConnType DEF TypeOK, StoreTypeOK
  <2>2. ConnInv'
    BY <1>0, <1>4 DEF ConnInv, Waiting, IdleConn
  <2>3. QED
    BY <2>1, <2>2
<1>5. ASSUME StartTransfer(c)
      PROVE  Typed'
  <2>1. TypeOK'
    <3>1. [conns[c] EXCEPT !.phase = "copy"] \in Conn
      BY <1>0, ConnRecords
    <3>2. QED
      BY <1>0, <1>5, <3>1 DEF StartTransfer, TypeOK, StoreTypeOK
  <2>2. ConnInv'
    BY <1>0, <1>5 DEF StartTransfer, TypeOK, StoreTypeOK, Conn, Phases, ConnInv, Waiting
  <2>3. QED
    BY <2>1, <2>2
<1>6. ASSUME NEW n \in 0..MaxBytes, EndTransfer(c, n)
      PROVE  Typed'
  <2>1. CASE n = 0
    BY <1>4, <1>6, <2>1 DEF EndTransfer
  <2>2. CASE n # 0
    <3>1. /\ conns[c].phase = "copy"
          /\ conns' = [conns EXCEPT ![c] = [@ EXCEPT !.phase = "charge", !.bytes = n]]
          /\ UNCHANGED <<clock, users, active_ips, lastGrant, ceiling>>
      BY <1>6, <2>2 DEF EndTransfer
    <3>2. TypeOK'
      <4>1. [conns[c] EXCEPT !.phase = "charge", !.bytes = n] \in Conn
        <5>1. n \in Nat
          BY <1>6
        <5>2. QED
          BY <1>0, <5>1, ConnRecords
      <4>2. QED
        BY <1>0, <3>1, <4>1 DEF TypeOK, StoreTypeOK
    <3>3. ConnInv'
      BY <1>0, <3>1 DEF Conn, Phases, ConnInv, Waiting
    <3>4. QED
      BY <3>2, <3>3
  <2>3. QED
    BY <2>1, <2>2
<1>7. ASSUME RecordUsage(c)
      PROVE  Typed'
  <2> DEFINE q == conns[c]
  <2>1. q.user \in Users /\ q.bytes \in Nat
    BY <1>0, <1>7 DEF RecordUsage, ConnInv, Conn
  <2>2. users' \in [Users -> UserRow \cup {Null}]
    <3>1. CASE Exists(q.user) /\ q.bytes > 0
      <4>1. users[q.user] \in UserRow
        BY <2>1, <3>1, ExistingRow
      <4>2. [users[q.user] EXCEPT !.used_bytes = users[q.user].used_bytes + q.bytes] \in UserRow
        BY <2>1, <4>1 DEF UserRow
      <4>3. users' = [users EXCEPT ![q.user] =
                       [users[q.user] EXCEPT !.used_bytes = users[q.user].used_bytes + q.bytes]]
        BY <1>7, <2>1, <3>1 DEF RecordUsage, AddUsage
      <4>4. QED
        BY <4>2, <4>3 DEF TypeOK, StoreTypeOK
    <3>2. CASE ~(Exists(q.user) /\ q.bytes > 0)
      BY <1>7, <3>2 DEF RecordUsage, AddUsage, TypeOK, StoreTypeOK
    <3>3. QED
      BY <3>1, <3>2
  <2>3. /\ conns' = [conns EXCEPT ![c] = IdleConn]
        /\ UNCHANGED <<clock, active_ips, lastGrant, ceiling>>
    BY <1>7 DEF RecordUsage, AddUsage
  <2>4. TypeOK'
    BY <1>0, <2>2, <2>3, IdleConnType DEF TypeOK, StoreTypeOK
  <2>5. ConnInv'
    BY <1>0, <2>3 DEF ConnInv, Waiting, IdleConn
  <2>6. QED
    BY <2>4, <2>5
<1>8. ASSUME Deny(c) \/ InternalError(c) \/ DialFails(c) \/ RecordFails(c)
      PROVE  Typed'
  BY <1>4, <1>8
     DEF Deny, AuthorizeDeny, storeVars, InternalError, DialFails, RecordFails
<1>9. QED
  BY <1>1, <1>2, <1>3, <1>5, <1>6, <1>7, <1>8 DEF ConnStep

(* ConnInv speaks of the connections and the clock alone.                  *)
LEMMA ConnInvKept ==
    ASSUME ConnInv, UNCHANGED <<clock, conns>>
    PROVE  ConnInv'
BY DEF ConnInv, Waiting

(* The steps of the administrator.                                         *)
LEMMA AdminStepTyped ==
    ASSUME Typed, NEW u \in Users, AdminStep(u)
    PROVE  Typed'
<1> USE AccessAssumption, StoreAssumption DEF Typed, AccessAssumption, StoreAssumption
<1>0. /\ clock \in Nat /\ conns \in [Conns -> Conn]
      /\ lastGrant \in [Users -> [IPs -> Nat]] /\ ceiling \in [Users -> Nat]
      /\ users \in [Users -> UserRow \cup {Null}]
      /\ active_ips \in [Users -> [IPs -> DeviceRow \cup {Null}]]
  BY DEF TypeOK, StoreTypeOK
<1>1. ASSUME NEW pw \in Secrets, NEW e \in ExpiryInputs, NEW q \in QuotaInputs,
             NEW n \in DeviceInputs, AdminCreateUser(u, pw, e, q, n)
      PROVE  Typed'
  <2>1. NewRow(pw, e, q, n) \in UserRow
    BY NewRowType
  <2>2. TypeOK'
    BY <1>0, <1>1, <2>1 DEF AdminCreateUser, CreateUser, TypeOK, StoreTypeOK
  <2>3. QED
    BY <1>1, <2>2, ConnInvKept DEF AdminCreateUser, CreateUser
<1>2. ASSUME AdminDeleteUser(u)
      PROVE  Typed'
  <2>1. TypeOK'
    BY <1>0, <1>2 DEF AdminDeleteUser, DeleteUser, Forget, TypeOK, StoreTypeOK
  <2>2. QED
    BY <1>2, <2>1, ConnInvKept DEF AdminDeleteUser, DeleteUser
<1>3. ASSUME NEW ip \in IPs, AdminKickDevice(u, ip)
      PROVE  Typed'
  <2>1. TypeOK'
    BY <1>0, <1>3 DEF AdminKickDevice, DeleteUserDevice, TypeOK, StoreTypeOK
  <2>2. QED
    BY <1>3, <2>1, ConnInvKept DEF AdminKickDevice, DeleteUserDevice
<1>4. ASSUME NEW row \in UserRow, UpdateUser(u, row), UNCHANGED <<conns, lastGrant>>,
             ceiling' \in [Users -> Nat]
      PROVE  Typed'
  <2>1. StoreTypeOK'
    BY <1>4, UpdateUserType
  <2>2. TypeOK'
    BY <1>0, <1>4, <2>1 DEF TypeOK
  <2>3. QED
    BY <1>4, <2>2, ConnInvKept DEF UpdateUser
<1>5. ASSUME AdminResetUsage(u)
      PROVE  Typed'
  <2>1. users[u] \in UserRow
    BY <1>5, ExistingRow DEF AdminResetUsage, ResetUserUsage, UpdateUser
  <2>2. [users[u] EXCEPT !.used_bytes = 0] \in UserRow /\ users[u].quota_bytes \in Nat
    BY <2>1 DEF UserRow
  <2>3. QED
    BY <1>0, <1>4, <1>5, <2>2 DEF AdminResetUsage, ResetUserUsage
<1>6. ASSUME NEW q \in Nat
      PROVE  Raise(u, q) \in Nat
  BY <1>0, MaxOfType DEF Raise
<1>7. ASSUME NEW q \in QuotaInputs, AdminSetQuota(u, q)
      PROVE  Typed'
  <2>1. users[u] \in UserRow
    BY <1>7, ExistingRow DEF AdminSetQuota, SetUserQuota, UpdateUser
  <2>2. [users[u] EXCEPT !.quota_bytes = q] \in UserRow
    BY <2>1 DEF UserRow
  <2>3. ceiling' \in [Users -> Nat]
    BY <1>0, <1>6, <1>7 DEF AdminSetQuota
  <2>4. QED
    BY <1>4, <1>7, <2>2, <2>3 DEF AdminSetQuota, SetUserQuota
<1>8. ASSUME NEW b \in TopUpInputs, AdminTopUp(u, b)
      PROVE  Typed'
  <2>1. users[u] \in UserRow
    BY <1>8, ExistingRow DEF AdminTopUp, TopUpQuota, UpdateUser
  <2>2. users[u].quota_bytes + b \in Nat
    BY <2>1 DEF UserRow
  <2>3. [users[u] EXCEPT !.quota_bytes = users[u].quota_bytes + b] \in UserRow
    BY <2>1, <2>2 DEF UserRow
  <2>4. users'[u].quota_bytes = users[u].quota_bytes + b
    BY <1>0, <1>8, <2>1 DEF AdminTopUp, TopUpQuota, UpdateUser, UserRow
  <2>5. ceiling' \in [Users -> Nat]
    BY <1>0, <1>6, <1>8, <2>2, <2>4 DEF AdminTopUp
  <2>6. QED
    BY <1>4, <1>8, <2>3, <2>5 DEF AdminTopUp, TopUpQuota
<1>9. ASSUME AdminSetUser(u)
      PROVE  Typed'
  <2>1. users[u] \in UserRow
    BY <1>9, ExistingRow
       DEF AdminSetUser, SetUserStatus, SetUserMaxDevices, SetUserPassword, UpdateUser
  <2>2. ASSUME NEW s \in StatusInputs, SetUserStatus(u, s)
        PROVE  Typed'
    <3>1. [users[u] EXCEPT !.status = s] \in UserRow
      BY <2>1 DEF UserRow
    <3>2. QED
      BY <1>0, <1>4, <1>9, <2>2, <3>1 DEF SetUserStatus, AdminSetUser
  <2>3. ASSUME NEW n \in DeviceInputs, SetUserMaxDevices(u, n)
        PROVE  Typed'
    <3>1. [users[u] EXCEPT !.max_devices = n] \in UserRow
      BY <2>1 DEF UserRow
    <3>2. QED
      BY <1>0, <1>4, <1>9, <2>3, <3>1 DEF SetUserMaxDevices, AdminSetUser
  <2>4. ASSUME NEW pw \in Secrets, SetUserPassword(u, pw)
        PROVE  Typed'
    <3>1. [users[u] EXCEPT !.password = Hashed(pw)] \in UserRow
      BY <2>1 DEF UserRow, Password, Hashed
    <3>2. QED
      BY <1>0, <1>4, <1>9, <2>4, <3>1 DEF SetUserPassword, AdminSetUser
  <2>5. QED
    BY <1>9, <2>2, <2>3, <2>4 DEF AdminSetUser
<1>10. ASSUME NEW b \in UsageInputs, AdminAddUsage(u, b)
       PROVE  Typed'
  <2>1. /\ ceiling' \in [Users -> Nat]
        /\ UNCHANGED <<clock, active_ips, conns, lastGrant>>
    BY <1>0, <1>10 DEF AdminAddUsage, AddUsage
  <2>2. users' \in [Users -> UserRow \cup {Null}]
    <3>1. CASE ~(Exists(u) /\ b > 0)
      BY <1>0, <1>10, <3>1 DEF AdminAddUsage, AddUsage
    <3>2. CASE Exists(u) /\ b > 0
      <4>1. users[u] \in UserRow /\ b \in Nat
        BY <1>10, <3>2, ExistingRow
      <4>2. [users[u] EXCEPT !.used_bytes = users[u].used_bytes + b] \in UserRow
        BY <4>1 DEF UserRow
      <4>3. users' = [users EXCEPT ![u] = [users[u] EXCEPT !.used_bytes = users[u].used_bytes + b]]
        BY <1>10, <3>2 DEF AdminAddUsage, AddUsage
      <4>4. QED
        BY <1>0, <4>2, <4>3
    <3>3. QED
      BY <3>1, <3>2
  <2>3. TypeOK'
    BY <1>0, <2>1, <2>2 DEF TypeOK, StoreTypeOK
  <2>4. QED
    BY <2>1, <2>3, ConnInvKept
<1>11. QED
  BY <1>1, <1>2, <1>3, <1>5, <1>7, <1>8, <1>9, <1>10 DEF AdminStep

(* Time, restarts and the batch operation.                                 *)
LEMMA EnvironmentTyped ==
    ASSUME Typed,
           \/ Tick \/ Restart \/ UNCHANGED vars
           \/ \E names \in SUBSET Users, s \in StatusInputs : AdminBatchStatus(names, s)
    PROVE  Typed'
<1> USE AccessAssumption, StoreAssumption DEF Typed, AccessAssumption, StoreAssumption
<1>1. CASE Tick
  <2>1. TypeOK'
    BY <1>1 DEF Tick, TypeOK, StoreTypeOK
  <2>2. ConnInv'
    <3> SUFFICES ASSUME NEW c \in Conns
                 PROVE  ConnInv!(c)'
      BY DEF ConnInv
    <3>1. /\ clock \in Nat /\ clock' = clock + 1 /\ conns' = conns
          /\ Waiting(c) => clock < conns[c].now + MaxWait
          /\ conns[c] \in Conn
      BY <1>1 DEF Tick, TypeOK, StoreTypeOK
    <3>2. conns[c].now \in Nat /\ conns[c].cutoff \in Int
      BY <3>1 DEF Conn
    <3>3. QED
      BY <3>1, <3>2 DEF ConnInv, Waiting
  <2>3. QED
    BY <2>1, <2>2
<1>2. CASE Restart
  <2>1. NewRow(BootstrapPass, 0, 0, 1) \in UserRow
    BY NewRowType
  <2>2. users' \in [Users -> UserRow \cup {Null}]
    BY <1>2, <2>1 DEF Restart, EnsureBootstrapUser, TypeOK, StoreTypeOK
  <2>3. TypeOK'
    BY <1>2, <2>2, IdleConnType DEF Restart, TypeOK, StoreTypeOK
  <2>4. ConnInv'
    BY <1>2 DEF Restart, ConnInv, Waiting, IdleConn
  <2>5. QED
    BY <2>3, <2>4
<1>3. CASE UNCHANGED vars
  <2>1. TypeOK'
    BY <1>3 DEF vars, TypeOK, StoreTypeOK
  <2>2. QED
    BY <1>3, <2>1, ConnInvKept DEF vars
<1>4. ASSUME NEW names \in SUBSET Users, NEW s \in StatusInputs, AdminBatchStatus(names, s)
      PROVE  Typed'
  <2>1. ASSUME NEW u \in Users, Exists(u)
        PROVE  [users[u] EXCEPT !.status = s] \in UserRow
    <3>1. users[u] \in UserRow
      BY <2>1, ExistingRow
    <3>2. QED
      BY <3>1 DEF UserRow
  <2>2. users' \in [Users -> UserRow \cup {Null}]
    BY <1>4, <2>1 DEF AdminBatchStatus, BatchSetUserStatus, TypeOK, StoreTypeOK
  <2>3. TypeOK'
    BY <1>4, <2>2 DEF AdminBatchStatus, BatchSetUserStatus, TypeOK, StoreTypeOK
  <2>4. QED
    BY <1>4, <2>3, ConnInvKept DEF AdminBatchStatus, BatchSetUserStatus
<1>5. QED
  BY <1>1, <1>2, <1>3, <1>4

(* Every step keeps the types.                                             *)
LEMMA StepTyped == Typed /\ [Next]_vars => Typed'
BY ConnStepTyped, AdminStepTyped, EnvironmentTyped DEF Next

(* Typed is an invariant.                                                  *)
LEMMA AlwaysTyped == Spec => []Typed
<1>1. QED
  BY InitTyped, StepTyped, PTL DEF Spec

(* In every reachable state the tables, the connections and the history    *)
(* variables have their types, for every value of the constants.           *)
THEOREM TypeCorrect == Spec => []TypeOK
<1>1. Typed => TypeOK
  BY DEF Typed
<1>2. QED
  BY AlwaysTyped, <1>1, PTL

-----------------------------------------------------------------------------
(* Devices.  GrantedDeviceIsCounted is not inductive: the row of a recent  *)
(* address survives a purge only because its last_seen, which a            *)
(* transaction with an older clock may have put back, lags behind the      *)
(* grant by at most MaxWait.                                               *)

DeviceInv ==
    \A u \in Users, ip \in IPs :
      ip \in Recent(u) =>
        /\ active_ips[u][ip] # Null
        /\ lastGrant[u][ip] <= active_ips[u][ip].last_seen + MaxWait

(* A row that is there is a record of two times.                           *)
LEMMA ExistingDevice ==
    ASSUME TypeOK, NEW u \in Users, NEW ip \in IPs, active_ips[u][ip] # Null
    PROVE  active_ips[u][ip].last_seen \in Nat
BY DEF TypeOK, StoreTypeOK, DeviceRow

(* No purge that a waiting connection may do drops a recent address.       *)
LEMMA RecentSurvivesPurge ==
    ASSUME Typed, DeviceInv, NEW c \in Conns, conns[c].phase = "authorize",
           NEW u \in Users, NEW ip \in IPs, ip \in Recent(u)
    PROVE  /\ active_ips[u][ip] # Null
           /\ Purged(conns[c].cutoff)[u][ip] = active_ips[u][ip]
<1> USE AccessAssumption, StoreAssumption DEF AccessAssumption, StoreAssumption
<1>1. /\ active_ips[u][ip] # Null
      /\ lastGrant[u][ip] <= active_ips[u][ip].last_seen + MaxWait
  BY DEF DeviceInv
<1>2. /\ active_ips[u][ip].last_seen \in Nat /\ lastGrant[u][ip] \in Nat /\ clock \in Nat
      /\ conns[c].cutoff \in Int
  BY <1>1, ExistingDevice DEF Typed, TypeOK, StoreTypeOK, Conn
<1>3. conns[c].cutoff <= clock - Window
  BY DEF Typed, ConnInv
<1>4. lastGrant[u][ip] + Window >= clock + MaxWait
  BY DEF Recent
<1>5. ~(active_ips[u][ip].last_seen < conns[c].cutoff)
  BY <1>1, <1>2, <1>3, <1>4
<1>6. QED
  BY <1>1, <1>5 DEF Purged

(* Without a grant and without new rows, nothing becomes recent.           *)
LEMMA RecentShrinks ==
    ASSUME Typed, DeviceInv, NEW u \in Users, NEW ip \in IPs,
           clock' \in Nat, clock <= clock',
           lastGrant'[u][ip] \in {0, lastGrant[u][ip]},
           lastGrant'[u][ip] # 0 => active_ips'[u][ip] = active_ips[u][ip],
           (ip \in Recent(u))'
    PROVE  /\ ip \in Recent(u)
           /\ active_ips'[u][ip] # Null
           /\ lastGrant'[u][ip] <= active_ips'[u][ip].last_seen + MaxWait
<1> USE AccessAssumption, StoreAssumption DEF AccessAssumption, StoreAssumption
<1>1. lastGrant[u][ip] \in Nat /\ clock \in Nat
  BY DEF Typed, TypeOK, StoreTypeOK
<1>2. lastGrant'[u][ip] > 0 /\ lastGrant'[u][ip] + Window >= clock' + MaxWait
  BY DEF Recent
<1>3. lastGrant'[u][ip] = lastGrant[u][ip] /\ active_ips'[u][ip] = active_ips[u][ip]
  BY <1>1, <1>2
<1>4. ip \in Recent(u)
  BY <1>1, <1>2, <1>3 DEF Recent
<1>5. QED
  BY <1>3, <1>4 DEF DeviceInv

(* The steps that grant nothing keep every row they do not kick or delete. *)
LEMMA OtherStepsKeepRows ==
    ASSUME Typed, [Next]_vars, ~\E c \in Conns : Grant(c),
           NEW u \in Users, NEW ip \in IPs
    PROVE  /\ clock' \in Nat /\ clock <= clock'
           /\ lastGrant'[u][ip] \in {0, lastGrant[u][ip]}
           /\ lastGrant'[u][ip] # 0 => active_ips'[u][ip] = active_ips[u][ip]
<1>0. /\ clock \in Nat
      /\ lastGrant \in [Users -> [IPs -> Nat]]
      /\ active_ips \in [Users -> [IPs -> DeviceRow \cup {Null}]]
  BY DEF Typed, TypeOK, StoreTypeOK
<1>1. CASE UNCHANGED <<active_ips, lastGrant>> /\ clock' \in {clock, clock + 1}
  BY <1>0, <1>1
<1>2. ASSUME NEW v \in Users, AdminDeleteUser(v)
      PROVE  /\ clock' = clock
             /\ lastGrant'[u][ip] = 0 \/ (/\ lastGrant'[u][ip] = lastGrant[u][ip]
                                          /\ active_ips'[u][ip] = active_ips[u][ip])
  BY <1>0, <1>2 DEF AdminDeleteUser, DeleteUser, Forget
<1>3. ASSUME NEW v \in Users, NEW i \in IPs, AdminKickDevice(v, i)
      PROVE  /\ clock' = clock
             /\ lastGrant'[u][ip] = 0 \/ (/\ lastGrant'[u][ip] = lastGrant[u][ip]
                                          /\ active_ips'[u][ip] = active_ips[u][ip])
  BY <1>0, <1>3 DEF AdminKickDevice, DeleteUserDevice
<1>4. ASSUME NEW c \in Conns, ConnStep(c)
      PROVE  UNCHANGED <<active_ips, lastGrant, clock>>
  BY <1>4 DEF ConnStep, Validate, ReadCutoff, Deny, AuthorizeDeny, storeVars, InternalError,
              DialFails, StartTransfer, EndTransfer, RecordUsage, AddUsage, RecordFails
<1>5. ASSUME NEW v \in Users, AdminStep(v)
      PROVE  \/ AdminDeleteUser(v)
             \/ \E i \in IPs : AdminKickDevice(v, i)
             \/ UNCHANGED <<active_ips, lastGrant, clock>>
  BY <1>5 DEF AdminStep, AdminCreateUser, CreateUser, AdminResetUsage, ResetUserUsage,
              AdminSetQuota, SetUserQuota, AdminTopUp, TopUpQuota, AdminSetUser,
              AdminAddUsage, AddUsage,
              SetUserStatus, SetUserMaxDevices, SetUserPassword, UpdateUser
<1>6. ASSUME Restart \/ UNCHANGED vars
             \/ \E names \in SUBSET Users, s \in StatusInputs : AdminBatchStatus(names, s)
      PROVE  UNCHANGED <<active_ips, lastGrant, clock>>
  BY <1>6 DEF Restart, vars, AdminBatchStatus, BatchSetUserStatus
<1>7. ASSUME Tick
      PROVE  UNCHANGED <<active_ips, lastGrant>> /\ clock' = clock + 1
  BY <1>7 DEF Tick
<1>8. QED
  BY <1>0, <1>1, <1>2, <1>3, <1>4, <1>5, <1>6, <1>7 DEF Next

(* What a grant does to an address: it is the granted one, with the row    *)
(* written now, or it is treated by the purge alone.                       *)
LEMMA GrantEffect ==
    ASSUME Typed, NEW c \in Conns, Grant(c), NEW u \in Users, NEW ip \in IPs
    PROVE  /\ conns[c].phase = "authorize" /\ clock' = clock /\ clock \in Nat
           /\ conns[c].user \in Users /\ conns[c].ip \in IPs
           /\ conns[c].now \in Nat /\ conns[c].cutoff \in Int
           /\ u = conns[c].user /\ ip = conns[c].ip =>
                /\ lastGrant'[u][ip] = clock
                /\ active_ips'[u][ip] # Null
                /\ active_ips'[u][ip].last_seen = conns[c].now
           /\ ~(u = conns[c].user /\ ip = conns[c].ip) =>
                /\ lastGrant'[u][ip] = lastGrant[u][ip]
                /\ active_ips'[u][ip] = Purged(conns[c].cutoff)[u][ip]
<1> DEFINE q == conns[c]
<1> DEFINE P == Purged(q.cutoff)
<1>0. conns[c] \in Conn /\ clock \in Nat /\ lastGrant \in [Users -> [IPs -> Nat]]
  BY DEF Typed, TypeOK, StoreTypeOK
<1>1. q.phase = "authorize" /\ clock' = clock
  BY DEF Grant, AuthorizeGrant
<1>2. q.user \in Users /\ q.ip \in IPs /\ q.now \in Nat /\ q.cutoff \in Int
  BY <1>0, <1>1 DEF Typed, ConnInv, Waiting, Conn
<1>3. P \in [Users -> [IPs -> DeviceRow \cup {Null}]]
  BY <1>2, PurgedType DEF Typed
<1>4. active_ips' = [P EXCEPT ![q.user][q.ip] = SeenAt(P[q.user][q.ip], q.now)]
  BY DEF Grant, AuthorizeGrant
<1>5. /\ SeenAt(P[q.user][q.ip], q.now) \in DeviceRow
      /\ SeenAt(P[q.user][q.ip], q.now).last_seen = q.now
  <2>1. P[q.user][q.ip] \in DeviceRow \cup {Null}
    BY ONLY <1>2, <1>3
  <2>2. QED
    BY <1>2, <2>1, SeenAtType
<1>6. SeenAt(P[q.user][q.ip], q.now) # Null
  BY <1>5, StoreAssumption DEF StoreAssumption
<1>7. lastGrant' = [lastGrant EXCEPT ![q.user][q.ip] = clock]
  BY DEF Grant
<1> HIDE DEF P
<1>8. u = q.user /\ ip = q.ip => /\ lastGrant'[u][ip] = clock
                               /\ active_ips'[u][ip] # Null
                               /\ active_ips'[u][ip].last_seen = q.now
  BY <1>0, <1>2, <1>3, <1>4, <1>5, <1>6, <1>7
<1>9. ~(u = q.user /\ ip = q.ip) => /\ lastGrant'[u][ip] = lastGrant[u][ip]
                                  /\ active_ips'[u][ip] = P[u][ip]
  BY <1>0, <1>2, <1>3, <1>4, <1>7
<1>10. QED
  BY <1>0, <1>1, <1>2, <1>8, <1>9 DEF P

(* Every step keeps DeviceInv.                                             *)
LEMMA StepDeviceInv == Typed /\ DeviceInv /\ [Next]_vars => DeviceInv'
<1> SUFFICES ASSUME Typed, DeviceInv, [Next]_vars, NEW u \in Users, NEW ip \in IPs,
                    (ip \in Recent(u))'
             PROVE  /\ active_ips'[u][ip] # Null
                    /\ lastGrant'[u][ip] <= active_ips'[u][ip].last_seen + MaxWait
  BY DEF DeviceInv
<1> USE AccessAssumption, StoreAssumption DEF AccessAssumption, StoreAssumption
<1>1. ASSUME NEW c \in Conns, Grant(c)
      PROVE  /\ active_ips'[u][ip] # Null
             /\ lastGrant'[u][ip] <= active_ips'[u][ip].last_seen + MaxWait
  <2>1. CASE u = conns[c].user /\ ip = conns[c].ip
    <3>1. clock <= conns[c].now + MaxWait
      BY <1>1, GrantEffect DEF Typed, ConnInv, Waiting
    <3>2. QED
      BY <1>1, <2>1, <3>1, GrantEffect
  <2>2. CASE ~(u = conns[c].user /\ ip = conns[c].ip)
    <3>1. /\ lastGrant'[u][ip] = lastGrant[u][ip] /\ clock' = clock
          /\ active_ips'[u][ip] = Purged(conns[c].cutoff)[u][ip]
          /\ conns[c].phase = "authorize"
      BY <1>1, <2>2, GrantEffect
    <3>2. ip \in Recent(u)
      BY <3>1 DEF Recent
    <3>3. active_ips'[u][ip] = active_ips[u][ip]
      BY <3>1, <3>2, RecentSurvivesPurge
    <3>4. QED
      BY <3>1, <3>2, <3>3 DEF DeviceInv
  <2>3. QED
    BY <2>1, <2>2
<1>2. ASSUME ~\E c \in Conns : Grant(c)
      PROVE  /\ active_ips'[u][ip] # Null
             /\ lastGrant'[u][ip] <= active_ips'[u][ip].last_seen + MaxWait
  <2>1. /\ clock' \in Nat /\ clock <= clock'
        /\ lastGrant'[u][ip] \in {0, lastGrant[u][ip]}
        /\ lastGrant'[u][ip] # 0 => active_ips'[u][ip] = active_ips[u][ip]
    BY <1>2, OtherStepsKeepRows
  <2>2. QED
    BY <2>1, RecentShrinks
<1>3. QED
  BY <1>1, <1>2

(* DeviceInv is an invariant.                                              *)
LEMMA AlwaysDeviceInv == Spec => [](Typed /\ DeviceInv)
<1>1. Init => DeviceInv
  BY DEF Init, DeviceInv, Recent
<1>2. QED
  BY <1>1, InitTyped, StepTyped, StepDeviceInv, PTL DEF Spec

(* An address admitted less than Window - MaxWait seconds ago holds its    *)
(* row, whatever transactions with older clocks did since.                 *)
THEOREM DevicesStayCounted == Spec => []GrantedDeviceIsCounted
<1>1. DeviceInv => GrantedDeviceIsCounted
  BY DEF DeviceInv, GrantedDeviceIsCounted
<1>2. QED
  BY <1>1, AlwaysDeviceInv, PTL

(* A recent address is one that is counted.                                *)
LEMMA RecentIsCounted ==
    ASSUME Typed, DeviceInv, NEW u \in Users
    PROVE  Recent(u) \subseteq Counted(u)
<1> USE AccessAssumption, StoreAssumption DEF AccessAssumption, StoreAssumption
<1> SUFFICES ASSUME NEW ip \in IPs, ip \in Recent(u)
             PROVE  ip \in Counted(u)
  BY DEF Recent
<1>1. /\ active_ips[u][ip] # Null
      /\ lastGrant[u][ip] <= active_ips[u][ip].last_seen + MaxWait
      /\ lastGrant[u][ip] + Window >= clock + MaxWait
  BY DEF DeviceInv, Recent
<1>2. /\ active_ips[u][ip].last_seen \in Nat /\ lastGrant[u][ip] \in Nat /\ clock \in Nat
  BY <1>1, ExistingDevice DEF Typed, TypeOK, StoreTypeOK
<1>3. QED
  BY <1>1, <1>2 DEF Counted

(* One device at the limit: what a grant adds to the recent addresses.     *)
LEMMA GrantWithinLimit ==
    ASSUME Typed, DeviceInv, NEW c \in Conns, Grant(c), NEW u \in Users,
           ~(Recent(u)' \subseteq Counted(u))
    PROVE  Cardinality(Recent(u)') <= DeviceLimit(users[u])
<1> USE AccessAssumption, StoreAssumption DEF AccessAssumption, StoreAssumption
<1> DEFINE q == conns[c]
<1> DEFINE D == DevicesIn(Purged(q.cutoff), u)
<1>1. PICK ip \in IPs : (ip \in Recent(u))' /\ ip \notin Counted(u)
  BY DEF Recent
<1>2. ip \notin Recent(u)
  BY <1>1, RecentIsCounted
<1>3. u = q.user /\ ip = q.ip
  <2>1. SUFFICES ASSUME ~(u = q.user /\ ip = q.ip) PROVE FALSE
    OBVIOUS
  <2>2. lastGrant'[u][ip] = lastGrant[u][ip] /\ clock' = clock
    BY <2>1, GrantEffect
  <2>3. QED
    BY <1>1, <1>2, <2>2 DEF Recent
<1>4. /\ q.phase = "authorize" /\ q.now \in Nat /\ q.cutoff \in Int
      /\ clock' = clock /\ clock \in Nat
  BY GrantEffect, <1>3
<1>5. q.now - Window <= q.cutoff /\ clock <= q.now + MaxWait
  BY <1>4 DEF Typed, ConnInv, Waiting
<1>6. ip \notin D
  <2>1. CASE active_ips[u][ip] = Null
    BY <2>1 DEF DevicesIn, Purged
  <2>2. CASE active_ips[u][ip] # Null
    <3>1. active_ips[u][ip].last_seen \in Nat
      BY <2>2, ExistingDevice DEF Typed
    <3>2. active_ips[u][ip].last_seen + Window + MaxWait < clock
      BY <1>1, <1>4, <2>2, <3>1 DEF Counted
    <3>3. active_ips[u][ip].last_seen < q.cutoff
      BY <1>4, <1>5, <3>1, <3>2
    <3>4. QED
      BY <2>2, <3>3 DEF DevicesIn, Purged
  <2>3. QED
    BY <2>1, <2>2
<1>7. Cardinality(D) < DeviceLimit(users[u])
  BY <1>3, <1>6 DEF Grant, AuthorizeGrant, Authorized
<1>8. Recent(u)' \subseteq D \cup {ip}
  <2>1. SUFFICES ASSUME NEW i \in IPs, (i \in Recent(u))', i # ip PROVE i \in D
    BY DEF Recent
  <2>2. lastGrant'[u][i] = lastGrant[u][i] /\ clock' = clock
    BY <1>3, <2>1, GrantEffect
  <2>3. i \in Recent(u)
    BY <2>1, <2>2 DEF Recent
  <2>4. active_ips[u][i] # Null /\ Purged(q.cutoff)[u][i] = active_ips[u][i]
    BY <1>4, <2>3, RecentSurvivesPurge
  <2>5. QED
    BY <2>4 DEF DevicesIn
<1> HIDE DEF D
<1>9. IsFiniteSet(D)
  BY FS_Subset DEF D, DevicesIn
<1>10. IsFiniteSet(D \cup {ip}) /\ Cardinality(D \cup {ip}) = Cardinality(D) + 1
  BY <1>6, <1>9, FS_AddElement
<1>11. Cardinality(Recent(u)') <= Cardinality(D) + 1 /\ Cardinality(Recent(u)') \in Nat
  BY <1>8, <1>10, FS_Subset, FS_CardinalityType
<1>12. Cardinality(D) \in Nat
  BY <1>9, FS_CardinalityType
<1>13. DeviceLimit(users[u]) \in Nat
  <2>1. users[u] \in UserRow
    BY <1>3, ExistingRow DEF Typed, Grant, AuthorizeGrant, Authorized
  <2>2. QED
    BY <2>1 DEF DeviceLimit, UserRow
<1>14. QED
  BY <1>7, <1>11, <1>12, <1>13

(* When an address that was not counted is admitted, the addresses         *)
(* admitted lately are at most max_devices, whatever the interleaving.     *)
THEOREM DeviceLimitHolds == Spec => DevicesWithinLimit
<1> DEFINE Within == \A u \in Users : ~(Recent(u)' \subseteq Counted(u))
                       => Cardinality(Recent(u)') <= DeviceLimit(users[u])
<1>1. Typed /\ DeviceInv /\ [Next]_vars => [Within]_vars
  <2> SUFFICES ASSUME Typed, DeviceInv, [Next]_vars, NEW u \in Users,
                      ~(Recent(u)' \subseteq Counted(u))
               PROVE  Cardinality(Recent(u)') <= DeviceLimit(users[u])
    OBVIOUS
  <2>1. ASSUME NEW c \in Conns, Grant(c)
        PROVE  Cardinality(Recent(u)') <= DeviceLimit(users[u])
    BY <2>1, GrantWithinLimit
  <2>2. ASSUME ~\E c \in Conns : Grant(c)
        PROVE  FALSE
    <3>1. ASSUME NEW ip \in IPs, (ip \in Recent(u))'
          PROVE  ip \in Recent(u)
      <4>1. /\ clock' \in Nat /\ clock <= clock'
            /\ lastGrant'[u][ip] \in {0, lastGrant[u][ip]}
            /\ lastGrant'[u][ip] # 0 => active_ips'[u][ip] = active_ips[u][ip]
        BY <2>2, OtherStepsKeepRows
      <4>2. QED
        BY <3>1, <4>1, RecentShrinks
    <3>2. Recent(u)' \subseteq Recent(u)
      BY <3>1 DEF Recent
    <3>3. QED
      BY <3>2, RecentIsCounted
  <2>3. QED
    BY <2>1, <2>2
<1>2. QED
  BY <1>1, AlwaysDeviceInv, PTL DEF Spec, DevicesWithinLimit

-----------------------------------------------------------------------------
(* Quota.  The bound on used_bytes becomes inductive when every connection *)
(* that has yet to charge a user counts as having charged MaxBytes.        *)

Cost(H) == MaxBytes * Cardinality(H)

RowWithin(row, ceil, H) ==
    ceil > 0 => /\ row.quota_bytes > 0 /\ row.quota_bytes <= ceil
                /\ row.used_bytes + Cost(H) <= (ceil - 1) + Cost(Conns)

QuotaInv ==
    \A u \in Users : IF Exists(u) THEN RowWithin(users[u], ceiling[u], Holders(u))
                     ELSE ceiling[u] = 0

(* What the quota argument needs of multiplication.                        *)
LEMMA Product ==
    ASSUME NEW a \in Nat, NEW b \in Nat, NEW c \in Nat, b <= c
    PROVE  a * b \in Nat /\ a * b <= a * c /\ a * (b + 1) = a * b + a
OBVIOUS

(* Fewer connections cost less.                                            *)
LEMMA CostMonotone ==
    ASSUME NEW H \in SUBSET Conns, NEW G \in SUBSET H
    PROVE  Cost(G) \in Nat /\ Cost(H) \in Nat /\ Cost(G) <= Cost(H)
<1>1. IsFiniteSet(H) /\ IsFiniteSet(G)
  BY AccessAssumption, FS_Subset DEF AccessAssumption
<1>2. Cardinality(G) \in Nat /\ Cardinality(H) \in Nat /\ Cardinality(G) <= Cardinality(H)
  BY <1>1, FS_Subset, FS_CardinalityType
<1>3. QED
  BY <1>2, Product, AccessAssumption DEF AccessAssumption, Cost

(* One connection costs MaxBytes.                                          *)
LEMMA CostOfOne ==
    ASSUME NEW H \in SUBSET Conns, NEW c \in H
    PROVE  Cost(H \ {c}) + MaxBytes = Cost(H)
<1>1. IsFiniteSet(H)
  BY AccessAssumption, FS_Subset DEF AccessAssumption
<1>2. IsFiniteSet(H \ {c}) /\ Cardinality(H \ {c}) = Cardinality(H) - 1 /\ Cardinality(H) \in Nat
  BY <1>1, FS_RemoveElement, FS_CardinalityType
<1>3. Cardinality(H \ {c}) \in Nat /\ Cardinality(H) = Cardinality(H \ {c}) + 1
  BY <1>2, FS_CardinalityType
<1>4. QED
  BY <1>3, Product, AccessAssumption DEF AccessAssumption, Cost

(* A fresh counter is within any quota, whatever is still in flight.       *)
LEMMA FreshRowWithin ==
    ASSUME NEW row \in UserRow, row.used_bytes = 0, NEW H \in SUBSET Conns
    PROVE  RowWithin(row, row.quota_bytes, H)
<1>1. Cost(H) \in Nat /\ Cost(Conns) \in Nat /\ Cost(H) <= Cost(Conns)
  BY CostMonotone
<1>2. row.quota_bytes \in Nat
  BY DEF UserRow
<1>3. QED
  BY <1>1, <1>2 DEF RowWithin

(* QuotaInv holds initially.                                               *)
LEMMA InitQuotaInv == Init => QuotaInv
<1> SUFFICES ASSUME Init, NEW u \in Users
             PROVE  IF Exists(u) THEN RowWithin(users[u], ceiling[u], Holders(u))
                    ELSE ceiling[u] = 0
  BY DEF QuotaInv
<1>1. CASE ~Exists(u)
  BY <1>1 DEF Init
<1>2. CASE Exists(u) /\ users[u].used_bytes = 0
  <2>1. users[u] \in UserRow /\ ceiling[u] = users[u].quota_bytes
    BY <1>2, AccessAssumption DEF Init, Exists, AccessAssumption
  <2>2. RowWithin(users[u], users[u].quota_bytes, Holders(u))
    BY <1>2, <2>1, FreshRowWithin DEF Holders
  <2>3. QED
    BY <1>2, <2>1, <2>2
<1>3. CASE Exists(u) /\ users[u].used_bytes # 0
  BY <1>3 DEF Init, RowWithin
<1>4. QED
  BY <1>1, <1>2, <1>3

(* Steps after which no more connections hold u than before, and which     *)
(* leave u's row and ceiling as they are.                                  *)
LEMMA FewerHolders ==
    ASSUME QuotaInv, Typed, NEW u \in Users,
           users'[u] = users[u], ceiling'[u] = ceiling[u],
           Holders(u)' \subseteq Holders(u)
    PROVE  IF Exists(u)' THEN RowWithin(users'[u], ceiling'[u], Holders(u)')
           ELSE ceiling'[u] = 0
<1>1. CASE Exists(u)
  <2>1. RowWithin(users[u], ceiling[u], Holders(u))
    BY <1>1 DEF QuotaInv
  <2>2. /\ Cost(Holders(u)') \in Nat /\ Cost(Holders(u)) \in Nat /\ Cost(Conns) \in Nat
        /\ Cost(Holders(u)') <= Cost(Holders(u))
    BY CostMonotone DEF Holders
  <2>3. users[u] \in UserRow /\ ceiling[u] \in Nat
    BY <1>1, ExistingRow DEF Typed, TypeOK
  <2>4. users[u].used_bytes \in Nat
    BY <2>3 DEF UserRow
  <2>5. RowWithin(users[u], ceiling[u], Holders(u)')
    BY <2>1, <2>2, <2>3, <2>4 DEF RowWithin
  <2>6. QED
    BY <1>1, <2>5 DEF Exists
<1>2. CASE ~Exists(u)
  BY <1>2 DEF QuotaInv, Exists
<1>3. QED
  BY <1>1, <1>2

(* What QuotaInv asks of u after a step.                                   *)
WithinAfter(u) ==
    IF Exists(u)' THEN RowWithin(users'[u], ceiling'[u], Holders(u)') ELSE ceiling'[u] = 0

(* The steps of a connection: a grant adds a holder when the counter is    *)
(* still under the quota, a charge trades a holder for its bytes.          *)
LEMMA ConnStepQuota ==
    ASSUME Typed, QuotaInv, NEW c \in Conns, ConnStep(c), NEW u \in Users
    PROVE  WithinAfter(u)
<1> USE DEF WithinAfter
<1> USE AccessAssumption, StoreAssumption DEF AccessAssumption, StoreAssumption
<1>0. /\ conns \in [Conns -> Conn] /\ conns[c] \in Conn
      /\ users \in [Users -> UserRow \cup {Null}]
      /\ ceiling \in [Users -> Nat]
  BY DEF Typed, TypeOK, StoreTypeOK
<1>1. ASSUME Grant(c)
      PROVE  WithinAfter(u)
  <2> DEFINE q == conns[c]
  <2>1. /\ q.phase = "authorize" /\ q.user \in Users /\ ceiling' = ceiling
        /\ conns' = [conns EXCEPT ![c] = [IdleConn EXCEPT !.phase = "dial", !.user = q.user]]
        /\ users' = [users EXCEPT ![q.user].password = Hashed(q.secret)]
    BY <1>1 DEF Grant, AuthorizeGrant, Typed, ConnInv, Waiting
  <2>2. CASE u # q.user
    <3>1. Holders(u)' \subseteq Holders(u)
      BY <1>0, <2>1, <2>2 DEF Holders, IdleConn
    <3>2. users'[u] = users[u]
      BY <1>0, <2>1, <2>2
    <3>3. QED
      BY <2>1, <3>1, <3>2, FewerHolders
  <2>3. CASE u = q.user
    <3>1. users[u] \in UserRow
      BY <1>1, <2>3, ExistingRow DEF Typed, Grant, AuthorizeGrant, Authorized
    <3>2. users'[u] = [users[u] EXCEPT !.password = Hashed(q.secret)]
      BY <1>0, <2>1, <2>3
    <3>3. /\ users'[u].quota_bytes = users[u].quota_bytes
          /\ users'[u].used_bytes = users[u].used_bytes
          /\ users[u].quota_bytes \in Nat /\ users[u].used_bytes \in Nat
      BY <3>1, <3>2 DEF UserRow
    <3>4. users[u].quota_bytes > 0 => users[u].used_bytes < users[u].quota_bytes
      BY <1>1, <2>3 DEF Grant, AuthorizeGrant, Authorized
    <3>5. /\ Cost(Holders(u)') \in Nat /\ Cost(Conns) \in Nat
          /\ Cost(Holders(u)') <= Cost(Conns)
      BY CostMonotone DEF Holders
    <3>6. Exists(u)
      BY <1>1, <2>3 DEF Grant, AuthorizeGrant, Authorized
    <3>7. RowWithin(users[u], ceiling[u], Holders(u))
      BY <3>6 DEF QuotaInv
    <3>8. ceiling[u] > 0 => users[u].quota_bytes > 0 /\ users[u].quota_bytes <= ceiling[u]
      BY <3>7 DEF RowWithin
    <3>9. RowWithin(users'[u], ceiling'[u], Holders(u)')
      BY <1>0, <2>1, <3>3, <3>4, <3>5, <3>8 DEF RowWithin
    <3>10. Exists(u)'
      <4>1. users'[u] \in UserRow
        BY <2>1, <2>3, <3>1, <3>2 DEF Typed, ConnInv, Waiting, UserRow, Password, Hashed
      <4>2. QED
        BY <4>1 DEF Exists
    <3>11. QED
      BY <3>9, <3>10
  <2>4. QED
    BY <2>2, <2>3
<1>2. ASSUME RecordUsage(c)
      PROVE  WithinAfter(u)
  <2> DEFINE q == conns[c]
  <2>1. /\ q.phase = "charge" /\ q.user \in Users /\ q.bytes \in Nat /\ q.bytes <= MaxBytes
        /\ conns' = [conns EXCEPT ![c] = IdleConn] /\ ceiling' = ceiling
        /\ AddUsage(q.user, q.bytes)
    BY <1>0, <1>2 DEF RecordUsage, Typed, ConnInv, Conn
  <2>2. Holders(u)' \subseteq Holders(u)
    BY <1>0, <2>1 DEF Holders, IdleConn
  <2>3. CASE ~(u = q.user /\ Exists(u) /\ q.bytes > 0)
    <3>1. users'[u] = users[u]
      BY <1>0, <2>1, <2>3 DEF AddUsage
    <3>2. QED
      BY <2>1, <2>2, <3>1, FewerHolders
  <2>4. CASE u = q.user /\ Exists(u) /\ q.bytes > 0
    <3>1. users[u] \in UserRow
      BY <2>4, ExistingRow DEF Typed
    <3>2. users'[u] = [users[u] EXCEPT !.used_bytes = users[u].used_bytes + q.bytes]
      BY <1>0, <2>1, <2>4 DEF AddUsage
    <3>3. /\ users'[u].quota_bytes = users[u].quota_bytes
          /\ users'[u].used_bytes = users[u].used_bytes + q.bytes
          /\ users[u].quota_bytes \in Nat /\ users[u].used_bytes \in Nat
          /\ users'[u] \in UserRow
      BY <2>1, <3>1, <3>2 DEF UserRow
    <3>4. c \in Holders(u) /\ Holders(u)' \subseteq Holders(u) \ {c}
      BY <1>0, <2>1, <2>4 DEF Holders, IdleConn
    <3>5. /\ Cost(Holders(u)') <= Cost(Holders(u) \ {c})
          /\ Cost(Holders(u)') \in Nat /\ Cost(Holders(u) \ {c}) \in Nat
          /\ Cost(Holders(u)) \in Nat /\ Cost(Conns) \in Nat
      BY <3>4, CostMonotone DEF Holders
    <3>6. Cost(Holders(u) \ {c}) + MaxBytes = Cost(Holders(u))
      BY <3>4, CostOfOne DEF Holders
    <3>7. RowWithin(users[u], ceiling[u], Holders(u))
      BY <2>4 DEF QuotaInv
    <3>8. RowWithin(users'[u], ceiling'[u], Holders(u)')
      BY <1>0, <2>1, <3>3, <3>5, <3>6, <3>7 DEF RowWithin
    <3>9. QED
      BY <3>3, <3>8 DEF Exists
  <2>5. QED
    BY <2>3, <2>4
<1>3. ASSUME ~Grant(c), ~RecordUsage(c)
      PROVE  WithinAfter(u)
  <2>1. users' = users /\ ceiling' = ceiling
    BY <1>3 DEF ConnStep, Validate, ReadCutoff, Deny, AuthorizeDeny, storeVars, InternalError,
                DialFails, StartTransfer, EndTransfer, RecordFails
  <2>2. Holders(u)' \subseteq Holders(u)
    <3>1. ASSUME conns' = [conns EXCEPT ![c] = IdleConn]
          PROVE  Holders(u)' \subseteq Holders(u)
      BY <1>0, <3>1 DEF Holders, IdleConn
    <3>2. CASE \E v \in Users, pw \in Secrets, ip \in IPs : Validate(c, v, pw, ip)
      BY <1>0, <3>2 DEF Validate, Holders, Conn
    <3>3. CASE ReadCutoff(c)
      BY <1>0, <3>3 DEF ReadCutoff, Holders, Conn
    <3>4. CASE StartTransfer(c)
      BY <1>0, <3>4 DEF StartTransfer, Holders, Conn
    <3>5. ASSUME NEW n \in 0..MaxBytes, EndTransfer(c, n)
          PROVE  Holders(u)' \subseteq Holders(u)
      <4>1. CASE n = 0
        BY <3>1, <3>5, <4>1 DEF EndTransfer
      <4>2. CASE n # 0
        BY <1>0, <3>5, <4>2 DEF EndTransfer, Holders, Conn
      <4>3. QED
        BY <4>1, <4>2
    <3>6. CASE Deny(c) \/ InternalError(c) \/ DialFails(c) \/ RecordFails(c)
      BY <3>1, <3>6 DEF Deny, InternalError, DialFails, RecordFails
    <3>7. QED
      BY <1>3, <3>2, <3>3, <3>4, <3>5, <3>6 DEF ConnStep
  <2>3. QED
    BY <2>1, <2>2, FewerHolders
<1>4. QED
  BY <1>1, <1>2, <1>3

(* An UPDATE that keeps used_bytes and whose new quota is under the new    *)
(* ceiling keeps the bound.                                                *)
LEMMA UpdateQuota ==
    ASSUME Typed, QuotaInv, NEW v \in Users, NEW row \in UserRow, UpdateUser(v, row),
           UNCHANGED conns, NEW k \in Nat, ceiling' = [ceiling EXCEPT ![v] = k],
           row.used_bytes = users[v].used_bytes,
           k > 0 => /\ ceiling[v] > 0 /\ ceiling[v] <= k
                    /\ row.quota_bytes > 0 /\ row.quota_bytes <= k,
           NEW u \in Users
    PROVE  WithinAfter(u)
<1> USE DEF WithinAfter
<1>0. /\ users \in [Users -> UserRow \cup {Null}] /\ ceiling \in [Users -> Nat]
      /\ users' = [users EXCEPT ![v] = row] /\ Exists(v)
  BY DEF Typed, TypeOK, StoreTypeOK, UpdateUser
<1>1. Holders(u)' = Holders(u)
  BY DEF Holders
<1>2. CASE u # v
  BY <1>0, <1>1, <1>2, FewerHolders
<1>3. CASE u = v
  <2>1. users'[u] = row /\ ceiling'[u] = k
    BY <1>0, <1>3
  <2>2. RowWithin(users[u], ceiling[u], Holders(u))
    BY <1>0, <1>3 DEF QuotaInv
  <2>3. Cost(Holders(u)) \in Nat /\ Cost(Conns) \in Nat
    BY CostMonotone DEF Holders
  <2>4. row.used_bytes \in Nat /\ ceiling[u] \in Nat
    BY <1>0 DEF UserRow
  <2>5. RowWithin(row, k, Holders(u))
    BY <1>3, <2>2, <2>3, <2>4 DEF RowWithin
  <2>6. row # Null
    BY StoreAssumption DEF StoreAssumption
  <2>7. QED
    BY <1>1, <2>1, <2>5, <2>6 DEF Exists
<1>4. QED
  BY <1>2, <1>3

(* The steps of the administrator.                                         *)
LEMMA AdminStepQuota ==
    ASSUME Typed, QuotaInv, NEW v \in Users, AdminStep(v), NEW u \in Users
    PROVE  WithinAfter(u)
<1> USE AccessAssumption, StoreAssumption DEF AccessAssumption, StoreAssumption
<1>0. users \in [Users -> UserRow \cup {Null}] /\ ceiling \in [Users -> Nat]
  BY DEF Typed, TypeOK, StoreTypeOK
<1>1. ASSUME NEW row \in UserRow, row.used_bytes = 0, UNCHANGED conns,
             users' = [users EXCEPT ![v] = row],
             ceiling' = [ceiling EXCEPT ![v] = row.quota_bytes]
      PROVE  WithinAfter(u)
  <2>1. Holders(u)' = Holders(u) /\ Holders(u) \subseteq Conns
    BY <1>1 DEF Holders
  <2>2. CASE u # v
    BY <1>0, <1>1, <2>1, <2>2, FewerHolders DEF WithinAfter
  <2>3. CASE u = v
    <3>1. users'[u] = row /\ ceiling'[u] = row.quota_bytes /\ row # Null
      BY <1>0, <1>1, <2>3
    <3>2. RowWithin(row, row.quota_bytes, Holders(u))
      BY <1>1, <2>1, FreshRowWithin
    <3>3. QED
      BY <2>1, <3>1, <3>2 DEF WithinAfter, Exists
  <2>4. QED
    BY <2>2, <2>3
<1>2. ASSUME NEW pw \in Secrets, NEW e \in ExpiryInputs, NEW q \in QuotaInputs,
             NEW n \in DeviceInputs, AdminCreateUser(v, pw, e, q, n)
      PROVE  WithinAfter(u)
  <2>1. NewRow(pw, e, q, n) \in UserRow
    BY NewRowType
  <2>2. NewRow(pw, e, q, n).used_bytes = 0 /\ NewRow(pw, e, q, n).quota_bytes = q
    BY DEF NewRow
  <2>3. QED
    BY <1>1, <1>2, <2>1, <2>2 DEF AdminCreateUser, CreateUser
<1>3. ASSUME AdminDeleteUser(v)
      PROVE  WithinAfter(u)
  <2>1. Holders(u)' = Holders(u)
    BY <1>3 DEF AdminDeleteUser, Holders
  <2>2. CASE u = v
    BY <1>0, <1>3, <2>2 DEF AdminDeleteUser, DeleteUser, WithinAfter, Exists
  <2>3. CASE u # v
    <3>1. users'[u] = users[u] /\ ceiling'[u] = ceiling[u]
      BY <1>0, <1>3, <2>3 DEF AdminDeleteUser, DeleteUser
    <3>2. QED
      BY <2>1, <3>1, FewerHolders DEF WithinAfter
  <2>4. QED
    BY <2>2, <2>3
<1>4. ASSUME UNCHANGED <<conns, users, ceiling>>
      PROVE  WithinAfter(u)
  BY <1>4, FewerHolders DEF WithinAfter, Holders
<1>5. ASSUME AdminResetUsage(v)
      PROVE  WithinAfter(u)
  <2>1. users[v] \in UserRow
    BY <1>5, ExistingRow DEF AdminResetUsage, ResetUserUsage, UpdateUser, Typed
  <2>2. /\ [users[v] EXCEPT !.used_bytes = 0] \in UserRow
        /\ [users[v] EXCEPT !.used_bytes = 0].used_bytes = 0
        /\ [users[v] EXCEPT !.used_bytes = 0].quota_bytes = users[v].quota_bytes
    BY <2>1 DEF UserRow
  <2>3. QED
    BY <1>1, <1>5, <2>2 DEF AdminResetUsage, ResetUserUsage, UpdateUser
<1>6. ASSUME NEW q \in Nat, Raise(v, q) > 0
      PROVE  q > 0 /\ q <= Raise(v, q) /\ ceiling[v] > 0 /\ ceiling[v] <= Raise(v, q)
  <2>1. q # 0 /\ ceiling[v] # 0
    BY <1>6 DEF Raise
  <2>2. Raise(v, q) = MaxOf(ceiling[v], q)
    BY <2>1 DEF Raise
  <2>3. QED
    BY <1>0, <2>1, <2>2, MaxOfType
<1>7. ASSUME NEW q \in Nat
      PROVE  Raise(v, q) \in Nat
  BY <1>0, MaxOfType DEF Raise
<1>8. ASSUME NEW q \in Nat, UNCHANGED conns,
             UpdateUser(v, [users[v] EXCEPT !.quota_bytes = q]),
             ceiling' = [ceiling EXCEPT ![v] = Raise(v, q)]
      PROVE  WithinAfter(u)
  <2>1. users[v] \in UserRow
    BY <1>8, ExistingRow DEF UpdateUser, Typed
  <2> DEFINE row == [users[v] EXCEPT !.quota_bytes = q]
  <2>2. row \in UserRow /\ row.used_bytes = users[v].used_bytes /\ row.quota_bytes = q
    BY <2>1 DEF UserRow
  <2>3. UpdateUser(v, row)
    BY <1>8
  <2> HIDE DEF row
  <2>4. QED
    BY <1>6, <1>7, <1>8, <2>2, <2>3, UpdateQuota
<1>9. ASSUME NEW q \in QuotaInputs, AdminSetQuota(v, q)
      PROVE  WithinAfter(u)
  BY <1>8, <1>9 DEF AdminSetQuota, SetUserQuota
<1>10. ASSUME NEW b \in TopUpInputs, AdminTopUp(v, b)
       PROVE  WithinAfter(u)
  <2>1. users[v] \in UserRow
    BY <1>10, ExistingRow DEF AdminTopUp, TopUpQuota, UpdateUser, Typed
  <2>2. users[v].quota_bytes + b \in Nat
    BY <2>1 DEF UserRow
  <2>3. /\ UpdateUser(v, [users[v] EXCEPT !.quota_bytes = users[v].quota_bytes + b])
        /\ users'[v].quota_bytes = users[v].quota_bytes + b
    BY <1>0, <1>10, <2>1 DEF AdminTopUp, TopUpQuota, UpdateUser, UserRow
  <2>4. QED
    BY <1>8, <1>10, <2>2, <2>3 DEF AdminTopUp
<1>11. ASSUME AdminSetUser(v)
       PROVE  WithinAfter(u)
  <2>1. users[v] \in UserRow /\ UNCHANGED <<conns, ceiling>>
    BY <1>11, ExistingRow DEF AdminSetUser, SetUserStatus, SetUserMaxDevices,
                              SetUserPassword, UpdateUser, Typed
  <2>2. PICK row \in UserRow : /\ UpdateUser(v, row)
                               /\ row.used_bytes = users[v].used_bytes
                               /\ row.quota_bytes = users[v].quota_bytes
    <3>1. ASSUME NEW s \in StatusInputs
          PROVE  /\ [users[v] EXCEPT !.status = s] \in UserRow
                 /\ [users[v] EXCEPT !.status = s].used_bytes = users[v].used_bytes
                 /\ [users[v] EXCEPT !.status = s].quota_bytes = users[v].quota_bytes
      BY <2>1 DEF UserRow
    <3>2. ASSUME NEW n \in DeviceInputs
          PROVE  /\ [users[v] EXCEPT !.max_devices = n] \in UserRow
                 /\ [users[v] EXCEPT !.max_devices = n].used_bytes = users[v].used_bytes
                 /\ [users[v] EXCEPT !.max_devices = n].quota_bytes = users[v].quota_bytes
      BY <2>1 DEF UserRow
    <3>3. ASSUME NEW pw \in Secrets
          PROVE  /\ [users[v] EXCEPT !.password = Hashed(pw)] \in UserRow
                 /\ [users[v] EXCEPT !.password = Hashed(pw)].used_bytes = users[v].used_bytes
                 /\ [users[v] EXCEPT !.password = Hashed(pw)].quota_bytes = users[v].quota_bytes
      BY <2>1 DEF UserRow, Password, Hashed
    <3>4. QED
      BY <1>11, <3>1, <3>2, <3>3
         DEF AdminSetUser, SetUserStatus, SetUserMaxDevices, SetUserPassword
  <2>3. ceiling' = [ceiling EXCEPT ![v] = ceiling[v]] /\ ceiling[v] \in Nat
    BY <1>0, <2>1
  <2>4. ceiling[v] > 0 => row.quota_bytes > 0 /\ row.quota_bytes <= ceiling[v]
    BY <2>2 DEF UpdateUser, QuotaInv, RowWithin
  <2>5. row.used_bytes = users[v].used_bytes /\ UpdateUser(v, row) /\ UNCHANGED conns
    BY <2>1, <2>2
  <2>6. ceiling[v] > 0 => /\ ceiling[v] > 0 /\ ceiling[v] <= ceiling[v]
                          /\ row.quota_bytes > 0 /\ row.quota_bytes <= ceiling[v]
    BY <2>3, <2>4
  <2> DEFINE k == ceiling[v]
  <2>7. /\ k \in Nat /\ ceiling' = [ceiling EXCEPT ![v] = k]
        /\ k > 0 => /\ ceiling[v] > 0 /\ ceiling[v] <= k
                    /\ row.quota_bytes > 0 /\ row.quota_bytes <= k
    BY <2>3, <2>6
  <2> HIDE DEF k
  <2>8. QED
    BY <2>5, <2>7, UpdateQuota
<1>12. ASSUME NEW b \in UsageInputs, AdminAddUsage(v, b)
       PROVE  WithinAfter(u)
  <2>1. Holders(u)' \subseteq Holders(u)
    BY <1>12 DEF AdminAddUsage, Holders
  <2>2. CASE u # v \/ b = 0 \/ ~Exists(v)
    <3>1. users'[u] = users[u]
      BY <1>0, <1>12, <2>2 DEF AdminAddUsage, AddUsage
    <3>2. ceiling'[u] = ceiling[u]
      BY <1>0, <1>12, <2>2, AccessAssumption
         DEF AdminAddUsage, QuotaInv, AccessAssumption
    <3>3. QED
      BY <2>1, <3>1, <3>2, FewerHolders DEF WithinAfter
  <2>3. CASE u = v /\ b # 0
    <3>1. b \in Nat /\ b > 0
      BY <1>12, <2>3
    <3>2. ceiling'[u] = 0
      BY <1>0, <1>12, <2>3, <3>1 DEF AdminAddUsage
    <3>3. RowWithin(users'[u], ceiling'[u], Holders(u)')
      BY <3>2 DEF RowWithin
    <3>4. QED
      BY <3>2, <3>3 DEF WithinAfter
  <2>4. QED
    BY <2>2, <2>3
<1>13. QED
  <2>1. ASSUME NEW ip \in IPs, AdminKickDevice(v, ip)
        PROVE  WithinAfter(u)
    BY <1>4, <2>1 DEF AdminKickDevice, DeleteUserDevice
  <2>2. QED
    BY <1>2, <1>3, <1>5, <1>9, <1>10, <1>11, <1>12, <2>1 DEF AdminStep

(* Time, restarts and the batch operation.                                 *)
LEMMA EnvironmentQuota ==
    ASSUME Typed, QuotaInv,
           \/ Tick \/ Restart \/ UNCHANGED vars
           \/ \E names \in SUBSET Users, s \in StatusInputs : AdminBatchStatus(names, s),
           NEW u \in Users
    PROVE  WithinAfter(u)
<1> USE AccessAssumption, StoreAssumption DEF AccessAssumption, StoreAssumption
<1>0. users \in [Users -> UserRow \cup {Null}] /\ ceiling \in [Users -> Nat]
  BY DEF Typed, TypeOK, StoreTypeOK
<1>1. CASE Tick \/ UNCHANGED vars
  <2>1. UNCHANGED <<users, ceiling, conns>>
    BY <1>1 DEF Tick, vars
  <2>2. Holders(u)' = Holders(u)
    BY <2>1 DEF Holders
  <2>3. QED
    BY <2>1, <2>2, FewerHolders DEF WithinAfter
<1>2. CASE Restart
  <2>1. Holders(u)' = {} /\ ceiling' = ceiling
    BY <1>2 DEF Restart, Holders, IdleConn
  <2>2. CASE users'[u] = users[u]
    BY <2>1, <2>2, FewerHolders DEF WithinAfter
  <2>3. CASE users'[u] # users[u]
    <3>1. ~Exists(u)
      BY <1>2, <2>3 DEF Restart, EnsureBootstrapUser
    <3>2. ceiling'[u] = 0
      BY <2>1, <3>1 DEF QuotaInv
    <3>3. QED
      BY <3>2 DEF WithinAfter, RowWithin
  <2>4. QED
    BY <2>2, <2>3
<1>3. ASSUME NEW names \in SUBSET Users, NEW s \in StatusInputs, AdminBatchStatus(names, s)
      PROVE  WithinAfter(u)
  <2>1. Holders(u)' = Holders(u) /\ ceiling' = ceiling
    BY <1>3 DEF AdminBatchStatus, Holders
  <2>2. users'[u] = IF u \in names /\ Exists(u)
                    THEN [users[u] EXCEPT !.status = s] ELSE users[u]
    BY <1>3 DEF AdminBatchStatus, BatchSetUserStatus
  <2>3. CASE ~(u \in names /\ Exists(u))
    BY <2>1, <2>2, <2>3, FewerHolders DEF WithinAfter
  <2>4. CASE u \in names /\ Exists(u)
    <3>1. users[u] \in UserRow
      BY <2>4, ExistingRow DEF Typed
    <3>2. /\ users'[u].quota_bytes = users[u].quota_bytes
          /\ users'[u].used_bytes = users[u].used_bytes
          /\ users'[u] \in UserRow
      BY <2>2, <2>4, <3>1 DEF UserRow
    <3>3. RowWithin(users[u], ceiling[u], Holders(u))
      BY <2>4 DEF QuotaInv
    <3>4. RowWithin(users'[u], ceiling'[u], Holders(u)')
      BY <2>1, <3>2, <3>3 DEF RowWithin
    <3>5. QED
      BY <3>2, <3>4 DEF WithinAfter, Exists
  <2>5. QED
    BY <2>3, <2>4
<1>4. QED
  BY <1>1, <1>2, <1>3

(* Every step keeps QuotaInv.                                              *)
LEMMA StepQuotaInv == Typed /\ QuotaInv /\ [Next]_vars => QuotaInv'
<1> SUFFICES ASSUME Typed, QuotaInv, [Next]_vars, NEW u \in Users
             PROVE  WithinAfter(u)
  BY DEF QuotaInv, WithinAfter
<1>1. QED
  BY ConnStepQuota, AdminStepQuota, EnvironmentQuota DEF Next

(* The inductive bound implies the one the runs check.                     *)
LEMMA WithinImpliesBound ==
    ASSUME Typed, QuotaInv
    PROVE  QuotaOvershootBounded
<1> SUFFICES ASSUME NEW u \in Users, Exists(u), ceiling[u] > 0
             PROVE  users[u].used_bytes <= (ceiling[u] - 1) + MaxBytes * Cardinality(Conns)
  BY DEF QuotaOvershootBounded
<1>1. RowWithin(users[u], ceiling[u], Holders(u))
  BY DEF QuotaInv
<1>2. Cost(Holders(u)) \in Nat /\ Cost(Conns) \in Nat
  BY CostMonotone DEF Holders
<1>3. users[u] \in UserRow /\ ceiling[u] \in Nat
  BY ExistingRow DEF Typed, TypeOK
<1>4. users[u].used_bytes \in Nat
  BY <1>3 DEF UserRow
<1>5. users[u].used_bytes <= (ceiling[u] - 1) + Cost(Conns)
  BY <1>1, <1>2, <1>3, <1>4 DEF RowWithin
<1>6. QED
  BY <1>5 DEF Cost

(* A user overshoots the quota by no more than one transfer per connection *)
(* slot, for any number of connections and any size of transfer.           *)
THEOREM QuotaBound == Spec => []QuotaOvershootBounded
BY InitTyped, StepTyped, InitQuotaInv, StepQuotaInv, WithinImpliesBound, PTL DEF Spec

(* Only an entitled user is granted, at most MaxWait seconds after expiry. *)
THEOREM OnlyEntitled == Spec => GrantsAreEntitled
<1> DEFINE Entitled ==
      \A c \in Conns :
         conns[c].phase = "authorize" /\ conns'[c].phase = "dial" =>
           LET row == users[conns[c].user] IN
           /\ row # Null
           /\ VerifyStoredPassword(row.password, conns[c].secret)
           /\ row.status = 1
           /\ row.expires_at > 0 => clock <= row.expires_at + MaxWait
           /\ row.quota_bytes > 0 => row.used_bytes < row.quota_bytes
<1>1. Typed /\ [Next]_vars => [Entitled]_vars
  <2> SUFFICES ASSUME Typed, [Next]_vars, NEW c \in Conns,
                      conns[c].phase = "authorize", conns'[c].phase = "dial"
               PROVE  /\ users[conns[c].user] # Null
                      /\ VerifyStoredPassword(users[conns[c].user].password, conns[c].secret)
                      /\ users[conns[c].user].status = 1
                      /\ users[conns[c].user].expires_at > 0 =>
                           clock <= users[conns[c].user].expires_at + MaxWait
                      /\ users[conns[c].user].quota_bytes > 0 =>
                           users[conns[c].user].used_bytes < users[conns[c].user].quota_bytes
    OBVIOUS
  <2>0. /\ conns \in [Conns -> Conn] /\ conns[c] \in Conn /\ clock \in Nat
    BY DEF Typed, TypeOK, StoreTypeOK
  <2>1. Grant(c)
    <3>1. ASSUME NEW d \in Conns, ConnStep(d)
          PROVE  Grant(c)
      <4>1. CASE d # c
        BY <2>0, <3>1, <4>1 DEF ConnStep, Validate, ReadCutoff, Grant, Deny, InternalError,
             DialFails, StartTransfer, EndTransfer, RecordUsage, RecordFails, AddUsage
      <4>2. CASE d = c
        <5>1. ASSUME Deny(c) \/ InternalError(c) \/ DialFails(c) \/ RecordUsage(c) \/ RecordFails(c)
              PROVE  FALSE
          <6>1. conns'[c] = IdleConn
            BY <2>0, <5>1 DEF Deny, InternalError, DialFails, RecordUsage, RecordFails
          <6>2. QED
            BY <6>1 DEF IdleConn
        <5>2. ASSUME ReadCutoff(c) \/ StartTransfer(c)
              PROVE  FALSE
          BY <2>0, <5>2 DEF ReadCutoff, StartTransfer, Conn
        <5>3. ASSUME NEW n \in 0..MaxBytes, EndTransfer(c, n)
              PROVE  FALSE
          BY <2>0, <5>3 DEF EndTransfer, Conn, IdleConn
        <5>4. ASSUME NEW u \in Users, NEW pw \in Secrets, NEW ip \in IPs, Validate(c, u, pw, ip)
              PROVE  FALSE
          BY <2>0, <5>4 DEF Validate, Conn
        <5>5. QED
          BY <3>1, <4>2, <5>1, <5>2, <5>3, <5>4 DEF ConnStep
      <4>3. QED
        BY <4>1, <4>2
    <3>2. CASE Tick \/ Restart \/ UNCHANGED vars
      BY <2>0, <3>2 DEF Tick, Restart, vars, IdleConn
    <3>3. CASE \/ \E u \in Users : AdminStep(u)
               \/ \E names \in SUBSET Users, s \in StatusInputs : AdminBatchStatus(names, s)
      BY <3>3 DEF AdminStep, AdminCreateUser, AdminDeleteUser, AdminKickDevice,
           AdminResetUsage, AdminSetQuota, AdminTopUp, AdminAddUsage, AdminSetUser,
           AdminBatchStatus
    <3>4. QED
      BY <3>1, <3>2, <3>3 DEF Next
  <2>2. Authorized(conns[c].user, conns[c].secret, conns[c].ip, conns[c].now, conns[c].cutoff)
    BY <2>1 DEF Grant, AuthorizeGrant
  <2>3. users[conns[c].user] \in UserRow
    BY <2>0, <2>2, ExistingRow DEF Authorized, Typed, ConnInv, Waiting
  <2>4. /\ users[conns[c].user].expires_at \in Nat
        /\ clock <= conns[c].now + MaxWait /\ conns[c].now \in Nat /\ MaxWait \in Nat
    BY <2>0, <2>3, AccessAssumption DEF UserRow, Typed, ConnInv, Waiting, Conn, AccessAssumption
  <2>5. users[conns[c].user].expires_at > 0 =>
          clock <= users[conns[c].user].expires_at + MaxWait
    BY <2>0, <2>2, <2>4 DEF Authorized
  <2>6. QED
    BY <2>2, <2>5 DEF Authorized, Exists
<1>2. QED
  BY <1>1, AlwaysTyped, PTL DEF Spec, GrantsAreEntitled

-----------------------------------------------------------------------------
(* ProxyAccess implements AccessLedger: each step of the proxies, the      *)
(* administrator and the environment is an action of the ledger on         *)
(* Accounts, Devices and Held, or changes none of them.                    *)

(* The mapped state.                                                       *)

(* A row stands for an account, with its quota, counter and limit.         *)
LEMMA AccountOfType ==
    ASSUME NEW row \in UserRow
    PROVE  /\ AccountOf(row) \in Ledger!Account /\ AccountOf(row) # Null
           /\ AccountOf(row).used = row.used_bytes
           /\ AccountOf(row).quota = row.quota_bytes
           /\ AccountOf(row).enabled = (row.status = 1)
           /\ AccountOf(row).limit = DeviceLimit(row)
<1>1. row.quota_bytes \in Nat /\ row.used_bytes \in Nat /\ row.max_devices \in Nat
  BY DEF UserRow
<1>2. DeviceLimit(row) \in Nat
  BY <1>1 DEF DeviceLimit
<1>3. AccountOf(row) \in Ledger!Account
  BY <1>1, <1>2 DEF AccountOf, Ledger!Account
<1>4. QED
  BY <1>3, RefinementAssumption DEF AccountOf, RefinementAssumption

(* An UPDATE or INSERT of one row changes the account of that user alone.  *)
LEMMA AccountsStep ==
    ASSUME TypeOK, NEW u \in Users, NEW row \in UserRow, users' = [users EXCEPT ![u] = row]
    PROVE  /\ Accounts' = [Accounts EXCEPT ![u] = AccountOf(row)]
           /\ Accounts'[u] = AccountOf(row)
<1>1. users \in [Users -> UserRow \cup {Null}] /\ row # Null
  BY StoreAssumption DEF TypeOK, StoreTypeOK, StoreAssumption
<1>2. QED
  BY <1>1 DEF Accounts, Exists

(* A step of one connection changes the holding of that connection alone.  *)
LEMMA HeldStep ==
    ASSUME TypeOK, NEW c \in Conns, NEW q, conns' = [conns EXCEPT ![c] = q]
    PROVE  Held' = [Held EXCEPT ![c] = Holder(q)]
BY DEF TypeOK, Held

(* The ledger counts devices as the store does.                            *)
LEMMA SameCardinality == \A S : Ledger!Cardinality(S) = Cardinality(S)
BY DEF Ledger!Cardinality, Cardinality, Ledger!IsFiniteSet, IsFiniteSet

(* The devices of the ledger are sets of addresses.                        *)
LEMMA DevicesType == Devices \in [Users -> SUBSET IPs]
BY DEF Devices, DevicesIn

-----------------------------------------------------------------------------
(* The initial states.                                                     *)

(* Whatever an earlier version left is a ledger without holdings.          *)
LEMMA InitLedger == Init => Ledger!Init
<1> SUFFICES ASSUME Init PROVE Ledger!Init
  OBVIOUS
<1>1. TypeOK
  BY InitTyped DEF Typed
<1>2. Accounts \in [Users -> Ledger!Account \cup {Null}]
  BY <1>1, ExistingRow, AccountOfType DEF Accounts
<1>3. Held = [c \in Conns |-> Null]
  BY DEF Init, Held, Holder, IdleConn
<1>4. QED
  BY <1>2, <1>3, DevicesType DEF Ledger!Init

-----------------------------------------------------------------------------
(* The steps of one connection.                                            *)

(* One step of the ledger, or none.                                        *)
LedgerStep == [Ledger!Next]_(Ledger!vars)

(* What does not touch the tables, and ends the holding or keeps it, is a  *)
(* release or nothing.                                                     *)
LEMMA QuietConnStep ==
    ASSUME Typed, NEW c \in Conns, NEW q, conns' = [conns EXCEPT ![c] = q],
           UNCHANGED <<users, active_ips>>,
           Holder(q) \in {Null, Holder(conns[c])}
    PROVE  LedgerStep
<1>1. Held' = [Held EXCEPT ![c] = Holder(q)]
  BY HeldStep DEF Typed
<1>2. UNCHANGED <<Accounts, Devices>>
  BY DEF Accounts, Exists, Devices, DevicesIn
<1>3. Held[c] = Holder(conns[c]) /\ Held = [d \in Conns |-> Held[d]]
  BY DEF Held
<1>4. CASE Holder(q) = Held[c]
  BY <1>1, <1>2, <1>3, <1>4 DEF LedgerStep, Ledger!vars
<1>5. CASE Holder(q) = Null /\ Held[c] # Null
  BY <1>1, <1>2, <1>5 DEF LedgerStep, Ledger!Next, Ledger!Release
<1>6. QED
  BY <1>3, <1>4, <1>5

(* A grant is an admission: what the purge leaves counts, and a new        *)
(* address is added only below the limit.                                  *)
LEMMA GrantAdmits ==
    ASSUME Typed, NEW c \in Conns, Grant(c)
    PROVE  LedgerStep
<1> DEFINE q == conns[c]
           u == q.user
           left == DevicesIn(Purged(q.cutoff), u)
<1>1. /\ q.phase = "authorize" /\ u \in Users /\ q.ip \in IPs /\ q.secret \in Secrets
      /\ q.now \in Nat /\ q.cutoff \in Int
  BY DEF Grant, Typed, TypeOK, ConnInv, Waiting, Conn
<1>2. /\ Authorized(u, q.secret, q.ip, q.now, q.cutoff)
      /\ users' = [users EXCEPT ![u].password = Hashed(q.secret)]
      /\ active_ips' = [Purged(q.cutoff) EXCEPT ![u][q.ip] = SeenAt(@, q.now)]
      /\ conns' = [conns EXCEPT ![c] = [IdleConn EXCEPT !.phase = "dial", !.user = u]]
  BY DEF Grant, AuthorizeGrant
<1>3. Exists(u) /\ users[u] \in UserRow
  BY <1>1, <1>2, ExistingRow DEF Authorized, Typed
<1> DEFINE row == [users[u] EXCEPT !.password = Hashed(q.secret)]
<1>4. row \in UserRow /\ AccountOf(row) = AccountOf(users[u])
  BY <1>1, <1>3 DEF UserRow, Password, Hashed, AccountOf, DeviceLimit
<1>5. users' = [users EXCEPT ![u] = row]
  BY <1>2
<1>6. Accounts[u] = AccountOf(users[u]) /\ Accounts = [v \in Users |-> Accounts[v]]
  BY <1>1, <1>3 DEF Accounts
<1> HIDE DEF row
<1>7. Accounts' = Accounts
  <2>1. Accounts' = [Accounts EXCEPT ![u] = AccountOf(row)]
    BY <1>1, <1>4, <1>5, AccountsStep DEF Typed
  <2>2. QED
    BY <2>1, <1>4, <1>6
<1>8. /\ Held[c] = Null
      /\ Held' = [Held EXCEPT ![c] = u]
  <2>1. Held[c] = Null
    BY <1>1 DEF Held, Holder
  <2>2. Holder([IdleConn EXCEPT !.phase = "dial", !.user = u]) = u
    BY DEF Holder, IdleConn
  <2>3. QED
    BY <1>2, <2>1, <2>2, HeldStep DEF Typed
<1>9. /\ Accounts[u] # Null /\ Accounts[u].enabled
      /\ Ledger!QuotaLeft(Accounts[u])
      /\ Accounts[u].limit = DeviceLimit(users[u])
  BY <1>2, <1>3, <1>6, AccountOfType DEF Authorized, Ledger!QuotaLeft
<1>10. Purged(q.cutoff) \in [Users -> [IPs -> DeviceRow \cup {Null}]]
  BY <1>1, PurgedType DEF Typed
<1>11. /\ \A v \in Users \ {u} : Devices'[v] = DevicesIn(Purged(q.cutoff), v)
       /\ Devices'[u] = left \cup {q.ip}
  <2>1. SeenAt(Purged(q.cutoff)[u][q.ip], q.now) # Null
    <3>1. Purged(q.cutoff)[u][q.ip] \in DeviceRow \cup {Null}
      BY <1>1, <1>10
    <3>2. QED
      BY <1>1, <3>1, SeenAtType, StoreAssumption DEF StoreAssumption
  <2>2. active_ips' = [Purged(q.cutoff) EXCEPT ![u] =
          [Purged(q.cutoff)[u] EXCEPT ![q.ip] = SeenAt(Purged(q.cutoff)[u][q.ip], q.now)]]
    BY <1>2
  <2>3. \A v \in Users \ {u} : active_ips'[v] = Purged(q.cutoff)[v]
    BY <1>10, <2>2
  <2>4. /\ active_ips'[u][q.ip] # Null
        /\ \A i \in IPs \ {q.ip} : active_ips'[u][i] = Purged(q.cutoff)[u][i]
    BY <1>1, <1>10, <2>1, <2>2
  <2>5. QED
    BY <1>1, <2>3, <2>4 DEF Devices, DevicesIn
<1>12. \A v \in Users : DevicesIn(Purged(q.cutoff), v) \subseteq Devices[v]
  BY DEF Devices, DevicesIn, Purged
<1>13. q.ip \in Devices[u] \/ Cardinality(Devices'[u]) <= Accounts[u].limit
  <2>1. CASE q.ip \in left
    BY <1>1, <1>12, <2>1
  <2>2. CASE q.ip \notin left
    <3>1. Cardinality(left) < DeviceLimit(users[u])
      BY <1>2, <2>2 DEF Authorized
    <3>2. IsFiniteSet(left)
      BY StoreAssumption, FS_Subset DEF StoreAssumption, DevicesIn
    <3>3. Cardinality(left \cup {q.ip}) = Cardinality(left) + 1 /\ Cardinality(left) \in Nat
      BY <2>2, <3>2, FS_AddElement, FS_CardinalityType
    <3>4. DeviceLimit(users[u]) \in Nat
      BY <1>3 DEF DeviceLimit, UserRow
    <3>5. QED
      BY <1>9, <1>11, <3>1, <3>3, <3>4
  <2>3. QED
    BY <2>1, <2>2
<1>14. Devices' \in [Users -> SUBSET IPs]
  BY DEF Devices, DevicesIn
<1>15. Ledger!Admit(c, u, q.ip)
  <2>1. \A v \in Users \ {u} : Devices'[v] \subseteq Devices[v]
    BY <1>11, <1>12
  <2>2. q.ip \in Devices'[u] /\ Devices'[u] \ {q.ip} \subseteq Devices[u]
    BY <1>1, <1>11, <1>12
  <2> HIDE DEF left, u, q
  <2>3. QED
    BY <1>7, <1>8, <1>9, <1>13, <1>14, <2>1, <2>2, SameCardinality DEF Ledger!Admit
<1>16. QED
  BY <1>1, <1>15 DEF LedgerStep, Ledger!Next

(* The charge of a finished transfer is a charge, of at most MaxBytes, or  *)
(* a release when the user is gone.                                        *)
LEMMA RecordCharges ==
    ASSUME Typed, NEW c \in Conns, RecordUsage(c)
    PROVE  LedgerStep
<1> DEFINE q == conns[c]
           u == q.user
           n == q.bytes
<1>1. /\ q.phase = "charge" /\ u \in Users /\ n \in Nat /\ n <= MaxBytes
      /\ conns' = [conns EXCEPT ![c] = IdleConn]
      /\ users' = IF Exists(u) /\ n > 0 THEN [users EXCEPT ![u].used_bytes = @ + n] ELSE users
      /\ active_ips' = active_ips
  BY DEF RecordUsage, AddUsage, Typed, TypeOK, ConnInv, Conn
<1>2. Holder(IdleConn) = Null
  BY DEF Holder, IdleConn
<1>3. CASE ~(Exists(u) /\ n > 0)
  BY <1>1, <1>2, <1>3, QuietConnStep
<1>4. CASE Exists(u) /\ n > 0
  <2>1. users[u] \in UserRow
    BY <1>1, <1>4, ExistingRow DEF Typed
  <2> DEFINE row == [users[u] EXCEPT !.used_bytes = users[u].used_bytes + n]
  <2>2. /\ row \in UserRow /\ users' = [users EXCEPT ![u] = row]
        /\ AccountOf(row) = [AccountOf(users[u]) EXCEPT !.used = AccountOf(users[u]).used + n]
    BY <1>1, <1>4, <2>1 DEF UserRow, AccountOf, DeviceLimit
  <2> HIDE DEF row
  <2>3. Accounts' = [Accounts EXCEPT ![u] = AccountOf(row)]
    BY <1>1, <2>2, AccountsStep DEF Typed
  <2>4. Accounts[u] = AccountOf(users[u]) /\ Accounts[u] # Null
    BY <1>1, <1>4, <2>1, AccountOfType DEF Accounts
  <2>5. Accounts' = [Accounts EXCEPT ![u].used = Accounts[u].used + n]
    BY <2>2, <2>3, <2>4
  <2>6. /\ Held[c] = u /\ u # Null
        /\ Held' = [Held EXCEPT ![c] = Null]
    BY <1>1, <1>2, HeldStep, RefinementAssumption
       DEF Held, Holder, Typed, RefinementAssumption
  <2>7. Devices' = Devices
    BY <1>1 DEF Devices, DevicesIn
  <2>8. n \in 1..MaxBytes
    BY <1>1, <1>4, AccessAssumption DEF AccessAssumption
  <2> HIDE DEF u, n, q
  <2>9. Ledger!Charge(c, n)
    BY <2>4, <2>5, <2>6, <2>7 DEF Ledger!Charge
  <2>10. QED
    BY <2>8, <2>9 DEF LedgerStep, Ledger!Next
<1>5. QED
  BY <1>3, <1>4

(* The other steps of a connection are quiet.                              *)
LEMMA ConnStepLedger ==
    ASSUME Typed, NEW c \in Conns, ConnStep(c)
    PROVE  LedgerStep
<1>0. conns[c] \in Conn /\ Holder(IdleConn) = Null
  BY DEF Typed, TypeOK, Holder, IdleConn
<1>1. CASE \E u \in Users, pw \in Secrets, ip \in IPs : Validate(c, u, pw, ip)
  <2>1. PICK u \in Users, pw \in Secrets, ip \in IPs : Validate(c, u, pw, ip)
    BY <1>1
  <2> DEFINE q == [conns[c] EXCEPT !.phase = "validate", !.user = u, !.secret = pw,
                                   !.ip = ip, !.now = clock]
  <2>2. conns' = [conns EXCEPT ![c] = q] /\ UNCHANGED <<users, active_ips>>
    BY <2>1 DEF Validate
  <2>3. Holder(q) = Null
    BY <1>0 DEF Holder, Conn
  <2> HIDE DEF q
  <2>4. QED
    BY <2>2, <2>3, QuietConnStep
<1>2. CASE ReadCutoff(c)
  <2> DEFINE q == [conns[c] EXCEPT !.phase = "authorize", !.cutoff = clock - Window]
  <2>1. conns' = [conns EXCEPT ![c] = q] /\ UNCHANGED <<users, active_ips>>
    BY <1>2 DEF ReadCutoff
  <2>2. Holder(q) = Null
    BY <1>0 DEF Holder, Conn
  <2> HIDE DEF q
  <2>3. QED
    BY <2>1, <2>2, QuietConnStep
<1>3. CASE StartTransfer(c)
  <2> DEFINE q == [conns[c] EXCEPT !.phase = "copy"]
  <2>1. conns' = [conns EXCEPT ![c] = q] /\ UNCHANGED <<users, active_ips>>
    BY <1>3 DEF StartTransfer
  <2>2. Holder(q) = Holder(conns[c])
    BY <1>0, <1>3 DEF Holder, Conn, StartTransfer
  <2> HIDE DEF q
  <2>3. QED
    BY <2>1, <2>2, QuietConnStep
<1>4. ASSUME NEW n \in 0..MaxBytes, EndTransfer(c, n)
      PROVE  LedgerStep
  <2> DEFINE q == [conns[c] EXCEPT !.phase = "charge", !.bytes = n]
  <2>1. /\ conns' = [conns EXCEPT ![c] = IF n = 0 THEN IdleConn ELSE q]
        /\ UNCHANGED <<users, active_ips>>
    BY <1>4 DEF EndTransfer
  <2>2. Holder(q) = Holder(conns[c])
    BY <1>0, <1>4 DEF Holder, Conn, EndTransfer
  <2> HIDE DEF q
  <2>3. QED
    BY <1>0, <2>1, <2>2, QuietConnStep
<1>5. CASE Deny(c) \/ InternalError(c) \/ DialFails(c) \/ RecordFails(c)
  <2>1. conns' = [conns EXCEPT ![c] = IdleConn] /\ UNCHANGED <<users, active_ips>>
    BY <1>5 DEF Deny, AuthorizeDeny, storeVars, InternalError, DialFails, RecordFails
  <2>2. QED
    BY <1>0, <2>1, QuietConnStep
<1>6. QED
  BY <1>1, <1>2, <1>3, <1>4, <1>5, GrantAdmits, RecordCharges DEF ConnStep

-----------------------------------------------------------------------------
(* The steps of the administrator.                                         *)

(* A row that is written over another, its counter kept, raised or zeroed, *)
(* revises the account.                                                    *)
LEMMA UpdateRevises ==
    ASSUME Typed, NEW u \in Users, NEW row \in UserRow, Exists(u),
           users' = [users EXCEPT ![u] = row], UNCHANGED <<active_ips, conns>>,
           row.used_bytes = 0 \/ row.used_bytes >= users[u].used_bytes
    PROVE  LedgerStep
<1>1. users[u] \in UserRow
  BY ExistingRow DEF Typed
<1>2. /\ Accounts' = [Accounts EXCEPT ![u] = AccountOf(row)]
      /\ Accounts'[u] = AccountOf(row)
  BY AccountsStep DEF Typed
<1>3. Accounts[u] = AccountOf(users[u]) /\ Accounts[u] # Null
  BY <1>1, AccountOfType DEF Accounts
<1>4. /\ AccountOf(row) \in Ledger!Account
      /\ AccountOf(row).used = 0 \/ AccountOf(row).used >= Accounts[u].used
  BY <1>1, <1>3, AccountOfType
<1>5. UNCHANGED <<Devices, Held>>
  BY DEF Devices, DevicesIn, Held
<1>6. Ledger!Revise(u)
  BY <1>2, <1>3, <1>4, <1>5 DEF Ledger!Revise
<1>7. QED
  BY <1>6 DEF LedgerStep, Ledger!Next

(* A new row opens an account.                                             *)
LEMMA InsertOpens ==
    ASSUME Typed, NEW u \in Users, NEW row \in UserRow, ~Exists(u), row.used_bytes = 0,
           users' = [users EXCEPT ![u] = row]
    PROVE  /\ Accounts[u] = Null
           /\ Accounts'[u] \in Ledger!Account /\ Accounts'[u].used = 0
           /\ Accounts' = [Accounts EXCEPT ![u] = Accounts'[u]]
<1>1. /\ Accounts' = [Accounts EXCEPT ![u] = AccountOf(row)]
      /\ Accounts'[u] = AccountOf(row)
  BY AccountsStep DEF Typed
<1>2. Accounts[u] = Null
  BY DEF Accounts
<1>3. QED
  BY <1>1, <1>2, AccountOfType

(* Every operation on a user is one action of the ledger.                  *)
LEMMA AdminStepLedger ==
    ASSUME Typed, NEW u \in Users, AdminStep(u)
    PROVE  LedgerStep
<1> USE AccessAssumption, StoreAssumption DEF AccessAssumption, StoreAssumption
<1>0. /\ users \in [Users -> UserRow \cup {Null}]
      /\ active_ips \in [Users -> [IPs -> DeviceRow \cup {Null}]]
  BY DEF Typed, TypeOK, StoreTypeOK
<1>1. ASSUME NEW pw \in Secrets, NEW e \in ExpiryInputs, NEW q \in QuotaInputs,
             NEW n \in DeviceInputs, AdminCreateUser(u, pw, e, q, n)
      PROVE  LedgerStep
  <2>1. NewRow(pw, e, q, n) \in UserRow /\ NewRow(pw, e, q, n).used_bytes = 0
    BY NewRowType DEF NewRow
  <2>2. /\ Accounts[u] = Null
        /\ Accounts'[u] \in Ledger!Account /\ Accounts'[u].used = 0
        /\ Accounts' = [Accounts EXCEPT ![u] = Accounts'[u]]
    BY <1>1, <2>1, InsertOpens DEF AdminCreateUser, CreateUser
  <2>3. UNCHANGED <<Devices, Held>>
    BY <1>1 DEF AdminCreateUser, CreateUser, Devices, DevicesIn, Held
  <2>4. Ledger!Open(u)
    BY <2>2, <2>3 DEF Ledger!Open
  <2>5. QED
    BY <2>4 DEF LedgerStep, Ledger!Next
<1>2. ASSUME AdminDeleteUser(u)
      PROVE  LedgerStep
  <2>1. Accounts[u] # Null
    BY <1>2, ExistingRow, AccountOfType DEF AdminDeleteUser, DeleteUser, Accounts, Typed
  <2>2. Accounts' = [Accounts EXCEPT ![u] = Null]
    BY <1>0, <1>2 DEF AdminDeleteUser, DeleteUser, Accounts, Exists
  <2>3. Devices' = [Devices EXCEPT ![u] = {}]
    BY <1>0, <1>2 DEF AdminDeleteUser, DeleteUser, Devices, DevicesIn
  <2>4. Held' = Held
    BY <1>2 DEF AdminDeleteUser, Held
  <2>5. Ledger!Close(u)
    BY <2>1, <2>2, <2>3, <2>4 DEF Ledger!Close
  <2>6. QED
    BY <2>5 DEF LedgerStep, Ledger!Next
<1>3. ASSUME NEW ip \in IPs, AdminKickDevice(u, ip)
      PROVE  LedgerStep
  <2>1. UNCHANGED <<Accounts, Held>>
    BY <1>3 DEF AdminKickDevice, DeleteUserDevice, Accounts, Exists, Held
  <2>2. active_ips' = [active_ips EXCEPT ![u] = [active_ips[u] EXCEPT ![ip] = Null]]
    BY <1>3 DEF AdminKickDevice, DeleteUserDevice
  <2>3. Devices' = [Devices EXCEPT ![u] = Devices[u] \ {ip}]
    BY <1>0, <2>2 DEF Devices, DevicesIn
  <2>4. Ledger!Kick(u, ip)
    BY <2>1, <2>3 DEF Ledger!Kick
  <2>5. QED
    BY <2>4 DEF LedgerStep, Ledger!Next
<1>4. ASSUME UNCHANGED <<users, active_ips, conns>>
      PROVE  LedgerStep
  BY <1>4 DEF LedgerStep, Ledger!vars, Accounts, Exists, Devices, DevicesIn, Held
<1>5. ASSUME NEW row \in UserRow, UpdateUser(u, row), UNCHANGED conns,
             row.used_bytes = 0 \/ row.used_bytes >= users[u].used_bytes
      PROVE  LedgerStep
  BY <1>5, UpdateRevises DEF UpdateUser
<1>6. ASSUME AdminResetUsage(u)
      PROVE  LedgerStep
  <2>1. users[u] \in UserRow
    BY <1>6, ExistingRow DEF AdminResetUsage, ResetUserUsage, UpdateUser, Typed
  <2>2. /\ [users[u] EXCEPT !.used_bytes = 0] \in UserRow
        /\ [users[u] EXCEPT !.used_bytes = 0].used_bytes = 0
    BY <2>1 DEF UserRow
  <2>3. QED
    BY <1>5, <1>6, <2>2 DEF AdminResetUsage, ResetUserUsage
<1>7. ASSUME NEW q \in Nat, UpdateUser(u, [users[u] EXCEPT !.quota_bytes = q]), UNCHANGED conns
      PROVE  LedgerStep
  <2>1. users[u] \in UserRow
    BY <1>7, ExistingRow DEF UpdateUser, Typed
  <2>2. /\ [users[u] EXCEPT !.quota_bytes = q] \in UserRow
        /\ [users[u] EXCEPT !.quota_bytes = q].used_bytes >= users[u].used_bytes
    BY <2>1 DEF UserRow
  <2>3. QED
    BY <1>5, <1>7, <2>2
<1>8. ASSUME NEW q \in QuotaInputs, AdminSetQuota(u, q)
      PROVE  LedgerStep
  BY <1>7, <1>8 DEF AdminSetQuota, SetUserQuota
<1>9. ASSUME NEW b \in TopUpInputs, AdminTopUp(u, b)
      PROVE  LedgerStep
  <2>1. users[u] \in UserRow
    BY <1>9, ExistingRow DEF AdminTopUp, TopUpQuota, UpdateUser, Typed
  <2> DEFINE q == users[u].quota_bytes + b
  <2>2. q \in Nat
    <3>1. users[u].quota_bytes \in Nat
      BY ONLY <2>1 DEF UserRow
    <3>2. b \in Nat
      BY ONLY AccessAssumption, b \in TopUpInputs DEF AccessAssumption
    <3>3. QED
      BY ONLY <3>1, <3>2
  <2>3. UpdateUser(u, [users[u] EXCEPT !.quota_bytes = q]) /\ UNCHANGED conns
    BY <1>9 DEF AdminTopUp, TopUpQuota
  <2> HIDE DEF q
  <2>4. QED
    BY <1>7, <2>2, <2>3
<1>10. ASSUME NEW b \in UsageInputs, AdminAddUsage(u, b)
       PROVE  LedgerStep
  <2>1. CASE ~(Exists(u) /\ b > 0)
    BY <1>4, <1>10, <2>1 DEF AdminAddUsage, AddUsage
  <2>2. CASE Exists(u) /\ b > 0
    <3>1. users[u] \in UserRow /\ b \in Nat
      BY <1>10, <2>2, ExistingRow DEF Typed
    <3> DEFINE row == [users[u] EXCEPT !.used_bytes = users[u].used_bytes + b]
    <3>2. row \in UserRow /\ row.used_bytes >= users[u].used_bytes
      BY <3>1 DEF UserRow
    <3>3. users' = [users EXCEPT ![u] = row] /\ UNCHANGED <<active_ips, conns>>
      BY <1>10, <2>2 DEF AdminAddUsage, AddUsage
    <3> HIDE DEF row
    <3>4. QED
      BY <2>2, <3>2, <3>3, UpdateRevises
  <2>3. QED
    BY <2>1, <2>2
<1>11. ASSUME AdminSetUser(u)
       PROVE  LedgerStep
  <2>1. users[u] \in UserRow /\ conns' = conns
    BY <1>11, ExistingRow DEF AdminSetUser, SetUserStatus, SetUserMaxDevices,
                              SetUserPassword, UpdateUser, Typed
  <2>2. ASSUME NEW s \in StatusInputs, SetUserStatus(u, s)
        PROVE  LedgerStep
    <3>1. /\ [users[u] EXCEPT !.status = s] \in UserRow
          /\ [users[u] EXCEPT !.status = s].used_bytes >= users[u].used_bytes
      BY <2>1 DEF UserRow
    <3>2. QED
      BY <1>5, <2>1, <2>2, <3>1 DEF SetUserStatus
  <2>3. ASSUME NEW n \in DeviceInputs, SetUserMaxDevices(u, n)
        PROVE  LedgerStep
    <3>1. /\ [users[u] EXCEPT !.max_devices = n] \in UserRow
          /\ [users[u] EXCEPT !.max_devices = n].used_bytes >= users[u].used_bytes
      BY <2>1 DEF UserRow
    <3>2. QED
      BY <1>5, <2>1, <2>3, <3>1 DEF SetUserMaxDevices
  <2>4. ASSUME NEW pw \in Secrets, SetUserPassword(u, pw)
        PROVE  LedgerStep
    <3>1. /\ [users[u] EXCEPT !.password = Hashed(pw)] \in UserRow
          /\ [users[u] EXCEPT !.password = Hashed(pw)].used_bytes >= users[u].used_bytes
      BY <2>1 DEF UserRow, Password, Hashed
    <3>2. QED
      BY <1>5, <2>1, <2>4, <3>1 DEF SetUserPassword
  <2>5. QED
    BY <1>11, <2>2, <2>3, <2>4 DEF AdminSetUser
<1>12. QED
  BY <1>1, <1>2, <1>3, <1>6, <1>8, <1>9, <1>10, <1>11 DEF AdminStep

-----------------------------------------------------------------------------
(* Time, restarts and the batch operation.                                 *)

(* The batch operation switches the accounts of the names that exist.      *)
LEMMA BatchSwitches ==
    ASSUME Typed, NEW names \in SUBSET Users, NEW s \in StatusInputs, AdminBatchStatus(names, s)
    PROVE  LedgerStep
<1> USE AccessAssumption, StoreAssumption DEF AccessAssumption, StoreAssumption
<1>1. /\ users' = [u \in Users |-> IF u \in names /\ Exists(u)
                                   THEN [users[u] EXCEPT !.status = s] ELSE users[u]]
      /\ UNCHANGED <<active_ips, conns>>
  BY DEF AdminBatchStatus, BatchSetUserStatus
<1>2. UNCHANGED <<Devices, Held>>
  BY <1>1 DEF Devices, DevicesIn, Held
<1>3. ASSUME NEW u \in Users
      PROVE  Accounts'[u] = IF u \in names /\ Accounts[u] # Null
                            THEN [Accounts[u] EXCEPT !.enabled = (s = 1)] ELSE Accounts[u]
  <2>1. CASE Exists(u)
    <3>1. users[u] \in UserRow
      BY <2>1, ExistingRow DEF Typed
    <3>2. Accounts[u] = AccountOf(users[u]) /\ Accounts[u] # Null
      BY <2>1, <3>1, AccountOfType DEF Accounts
    <3> DEFINE row == [users[u] EXCEPT !.status = s]
    <3>3. row \in UserRow /\ AccountOf(row) = [AccountOf(users[u]) EXCEPT !.enabled = (s = 1)]
      BY <3>1 DEF UserRow, AccountOf, DeviceLimit
    <3>4. users'[u] = IF u \in names THEN row ELSE users[u]
      BY <1>1, <2>1
    <3> HIDE DEF row
    <3>5. Exists(u)' /\ Accounts'[u] = AccountOf(users'[u])
      BY <3>1, <3>3, <3>4 DEF Exists, Accounts
    <3>6. QED
      BY <3>2, <3>3, <3>4, <3>5
  <2>2. CASE ~Exists(u)
    BY <1>1, <2>2 DEF Exists, Accounts
  <2>3. QED
    BY <2>1, <2>2
<1>4. Accounts' = [u \in Users |-> IF u \in names /\ Accounts[u] # Null
                                   THEN [Accounts[u] EXCEPT !.enabled = (s = 1)] ELSE Accounts[u]]
  BY <1>3 DEF Accounts
<1>5. (s = 1) \in BOOLEAN
  OBVIOUS
<1>6. Ledger!Switch(names, s = 1)
  BY <1>2, <1>4 DEF Ledger!Switch
<1>7. QED
  BY <1>5, <1>6 DEF LedgerStep, Ledger!Next

(* A restart drops every holding; the bootstrap user is an account opened  *)
(* where there was none.                                                   *)
LEMMA RestartCrashes ==
    ASSUME Typed, Restart
    PROVE  LedgerStep
<1>1. Held' = [c \in Conns |-> Null]
  BY DEF Restart, Held, Holder, IdleConn
<1>2. Devices' = Devices
  BY DEF Restart, Devices, DevicesIn
<1>3. CASE \E v \in Users : Exists(v)
  <2>1. Accounts' = Accounts
    BY <1>3 DEF Restart, EnsureBootstrapUser, Accounts, Exists
  <2>2. Ledger!Crash
    BY <1>1, <1>2, <2>1 DEF Ledger!Crash
  <2>3. QED
    BY <2>2 DEF LedgerStep, Ledger!Next
<1>4. CASE ~\E v \in Users : Exists(v)
  <2>1. BootstrapUser \in Users /\ BootstrapPass \in Secrets
    BY AccessAssumption DEF AccessAssumption
  <2>2. /\ NewRow(BootstrapPass, 0, 0, 1) \in UserRow
        /\ NewRow(BootstrapPass, 0, 0, 1).used_bytes = 0
    BY <2>1, NewRowType DEF NewRow
  <2>3. users' = [users EXCEPT ![BootstrapUser] = NewRow(BootstrapPass, 0, 0, 1)]
    BY <1>4 DEF Restart, EnsureBootstrapUser
  <2>4. /\ Accounts'[BootstrapUser] \in Ledger!Account /\ Accounts'[BootstrapUser].used = 0
        /\ Accounts' = [Accounts EXCEPT ![BootstrapUser] = Accounts'[BootstrapUser]]
    BY <1>4, <2>1, <2>2, <2>3, InsertOpens
  <2>5. \A v \in Users : Accounts[v] = Null
    BY <1>4 DEF Accounts
  <2>6. Ledger!Crash
    BY <1>1, <1>2, <2>1, <2>4, <2>5 DEF Ledger!Crash
  <2>7. QED
    BY <2>6 DEF LedgerStep, Ledger!Next
<1>5. QED
  BY <1>3, <1>4

(* Every step is a step of the ledger, or changes nothing of it.           *)
LEMMA StepLedger == Typed /\ [Next]_vars => LedgerStep
<1> SUFFICES ASSUME Typed, [Next]_vars PROVE LedgerStep
  OBVIOUS
<1>1. CASE Tick \/ UNCHANGED vars
  BY <1>1 DEF Tick, vars, LedgerStep, Ledger!vars, Accounts, Exists, Devices, DevicesIn, Held
<1>2. QED
  BY <1>1, ConnStepLedger, AdminStepLedger, BatchSwitches, RestartCrashes DEF Next

(* The refinement: however requests, administrators and crashes overlap,   *)
(* the proxies and the store show nothing but single admissions to an      *)
(* enabled account with quota left and room for the device, and for each   *)
(* at most one charge of at most MaxBytes.                                 *)
THEOREM Refinement == Spec => ImplementsLedger
<1>1. Typed /\ [Next]_vars => [Ledger!Next]_(Ledger!vars)
  BY StepLedger DEF LedgerStep
<1>2. QED
  BY <1>1, InitLedger, AlwaysTyped, PTL DEF Spec, ImplementsLedger, Ledger!Spec
=============================================================================
