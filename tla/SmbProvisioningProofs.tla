------------------------ MODULE SmbProvisioningProofs ------------------------
(***************************************************************************)
(* Proofs about SmbProvisioning, for every set of users, of requests that  *)
(* overlap and of passwords: its type invariant, that the Samba account of *)
(* an enabled user has the password of the row, and that directory and     *)
(* share of a user left in peace follow the flag.                          *)
(***************************************************************************)
EXTENDS SmbProvisioning, TLAPS

-----------------------------------------------------------------------------
(* The inductive invariant.                                                *)

\* The steps each handler goes through.
StepsOf == [create  |-> {"insert", "mkdir", "account", "share",
                         "undo_row", "undo_row_and_dir", "undo_dir"},
            enable  |-> {"mkdir", "share", "flag"},
            disable |-> {"share", "rmdir", "flag"},
            delete  |-> {"get", "share", "rmdir", "remove", "remove_row_only"},
            webdav  |-> {"get", "mkdir"},
            password |-> {"update", "get", "account"}]

InSequence == \A r \in Requests :
    requests[r] # Null => requests[r].step \in StepsOf[requests[r].op]

\* A request that has written the row's password and not yet the account's.
Given(q) ==
    /\ q # Null
    /\ \/ q.step = "account"
       \/ q.op = "create" /\ q.step = "mkdir"
       \/ q.op = "password" /\ q.step = "get"

\* Until the account is written, the user counts as out of step.
Owing(q) == Given(q) => row[q.user] = "none" \/ unsynced[q.user]

\* Nobody else has given the user a password since.
Latest(q) == Given(q) /\ q.alone => row[q.user] = "none" \/ password[q.user] = q.secret

\* Of two requests on one user that have a password to give, neither is alone.
Apart(p, q) ==
    p # Null /\ q # Null /\ p.op \in Givers /\ q.op \in Givers /\ p.user = q.user
        => ~p.alone /\ ~q.alone

IInv ==
    /\ TypeOK /\ InSequence /\ AccountInStep
    /\ \A r \in Requests : Owing(requests[r]) /\ Latest(requests[r])
    /\ \A r, s \in Requests : r # s => Apart(requests[r], requests[s])

-----------------------------------------------------------------------------
(* A request that goes on to one of its steps.                             *)

Advanced(q, p) == p = Null \/ \E s \in StepsOf[q.op] : p = [q EXCEPT !.step = s]

LEMMA StepsAreSteps == \A op \in Ops : StepsOf[op] \subseteq Steps
BY DEF StepsOf, Steps, Ops, Provisioners, Givers

LEMMA AdvancedType ==
    ASSUME NEW q \in Request, NEW p, Advanced(q, p), p # Null
    PROVE  /\ p \in Request /\ p.op = q.op /\ p.user = q.user
           /\ p.secret = q.secret /\ p.alone = q.alone
           /\ p.step \in StepsOf[q.op]
<1>1. PICK s \in StepsOf[q.op] : p = [q EXCEPT !.step = s]
  BY DEF Advanced
<1>2. q.op \in Ops
  BY DEF Request
<1>3. s \in Steps
  BY <1>1, <1>2, StepsAreSteps
<1>4. QED
  BY ONLY <1>1, <1>3, q \in Request DEF Request

(* What a step of one request owes the invariant: the tables keep their    *)
(* types, other users are left alone, and the user's row and account are   *)
(* as every request on it that has given a password must find them.        *)
StepOf(r, u) ==
    /\ requests[r] # Null /\ requests[r].user = u
    /\ Advanced(requests[r], requests'[r])
    /\ requests' = [requests EXCEPT ![r] = requests'[r]]
    /\ row' \in [Users -> Rows] /\ dir' \in [Users -> BOOLEAN]
    /\ share' \in [Users -> BOOLEAN] /\ password' \in [Users -> Secrets \cup {Null}]
    /\ account' \in [Users -> Secrets \cup {Null}] /\ unsynced' \in [Users -> BOOLEAN]
    /\ disturbed' \in [Users -> BOOLEAN] /\ cleaned' \in [Users -> BOOLEAN]
    /\ \A v \in Users \ {u} : /\ row'[v] = row[v] /\ password'[v] = password[v]
                              /\ account'[v] = account[v] /\ unsynced'[v] = unsynced[v]

LEMMA StepKeeps ==
    ASSUME IInv, NEW r \in Requests, NEW u \in Users, StepOf(r, u),
           row'[u] = "on" /\ ~unsynced'[u] => account'[u] = password'[u],
           \A s \in Requests \ {r} :
               requests[s] # Null /\ requests[s].user = u
                   => Owing(requests[s])' /\ Latest(requests[s])',
           Owing(requests[r])' /\ Latest(requests[r])'
    PROVE  IInv'
<1> USE DEF IInv, StepOf
<1>1. /\ requests \in [Requests -> Request \cup {Null}]
      /\ requests[r] \in Request
  BY DEF TypeOK
<1>2. requests'[r] # Null =>
        /\ requests'[r] \in Request /\ requests'[r].op = requests[r].op
        /\ requests'[r].user = requests[r].user /\ requests'[r].alone = requests[r].alone
        /\ requests'[r].step \in StepsOf[requests[r].op]
  BY <1>1, AdvancedType
<1>3. TypeOK'
  <2>1. requests' \in [Requests -> Request \cup {Null}]
    BY <1>1, <1>2
  <2>2. QED
    BY <2>1 DEF TypeOK
<1>4. \A s \in Requests \ {r} : requests'[s] = requests[s]
  BY <1>1
<1>5. InSequence'
  BY <1>2, <1>4 DEF InSequence
<1>6. AccountInStep'
  BY DEF AccountInStep
<1>7. ASSUME NEW s \in Requests
      PROVE  (Owing(requests[s]) /\ Latest(requests[s]))'
  <2>1. CASE s = r
    BY <2>1
  <2>2. CASE s # r /\ (requests[s] = Null \/ requests[s].user = u)
    BY <1>4, <2>2 DEF Owing, Latest, Given
  <2>3. CASE s # r /\ requests[s] # Null /\ requests[s].user # u
    <3>1. requests[s].user \in Users \ {u}
      BY <1>1, <2>3 DEF Request
    <3>2. Owing(requests[s]) /\ Latest(requests[s]) /\ requests'[s] = requests[s]
      BY <1>4, <2>3
    <3>3. QED
      BY <3>1, <3>2 DEF Owing, Latest
  <2>4. QED
    BY <2>1, <2>2, <2>3
<1>8. ASSUME NEW s \in Requests, NEW t \in Requests, s # t
      PROVE  Apart(requests[s], requests[t])'
  <2>1. Apart(requests[s], requests[t])
    BY <1>8
  <2>2. QED
    BY <1>2, <1>4, <1>8, <2>1 DEF Apart
<1>9. QED
  BY <1>3, <1>5, <1>6, <1>7, <1>8

(* A step that leaves row and account alone, of a request that is not, or  *)
(* was already, on its way to the account.                                 *)
LEMMA QuietStep ==
    ASSUME IInv, NEW r \in Requests, NEW u \in Users, StepOf(r, u),
           UNCHANGED <<row, accounts>>,
           Given(requests[r])' => Given(requests[r])
    PROVE  IInv'
<1>1. UNCHANGED <<row, password, account, unsynced>>
  BY DEF accounts
<1>2. row'[u] = "on" /\ ~unsynced'[u] => account'[u] = password'[u]
  BY <1>1 DEF IInv, AccountInStep
<1>3. \A s \in Requests \ {r} : requests'[s] = requests[s]
  BY DEF IInv, TypeOK, StepOf
<1>4. \A s \in Requests \ {r} :
         requests[s] # Null /\ requests[s].user = u
             => Owing(requests[s])' /\ Latest(requests[s])'
  BY <1>1, <1>3 DEF IInv, Owing, Latest
<1>5. Owing(requests[r])' /\ Latest(requests[r])'
  <2>1. CASE Given(requests[r])'
    <3>1. /\ Given(requests[r]) /\ Owing(requests[r]) /\ Latest(requests[r])
          /\ requests[r] \in Request
      BY <2>1 DEF IInv, StepOf, TypeOK
    <3>2. /\ requests'[r].user = requests[r].user /\ requests'[r].secret = requests[r].secret
          /\ requests'[r].alone = requests[r].alone
      BY <2>1, <3>1, AdvancedType DEF StepOf, Given
    <3>3. QED
      BY <1>1, <3>1, <3>2 DEF Owing, Latest
  <2>2. CASE ~Given(requests[r])'
    BY <2>2 DEF Owing, Latest
  <2>3. QED
    BY <2>1, <2>2
<1>6. QED
  BY <1>2, <1>4, <1>5, StepKeeps

(* The operations a request at each step may be of.                        *)
LEMMA StepTypes ==
    ASSUME IInv, NEW r \in Requests, requests[r] # Null
    PROVE  LET q == requests[r] IN
           /\ q \in Request /\ q.user \in Users /\ q.op \in Ops
           /\ q.step = "insert" => q.op = "create"
           /\ q.step = "update" => q.op = "password"
           /\ q.step = "get" => q.op \in {"delete", "webdav", "password"}
           /\ q.step = "mkdir" => q.op \in {"create", "enable", "webdav"}
           /\ q.step = "account" => q.op \in {"create", "password"}
           /\ q.step = "share" => q.op \in {"create", "enable", "disable", "delete"}
           /\ q.step = "rmdir" => q.op \in {"disable", "delete"}
           /\ q.step = "flag" => q.op \in {"enable", "disable"}
           /\ q.step \in {"remove", "remove_row_only"} => q.op = "delete"
           /\ q.step \in {"undo_row", "undo_row_and_dir", "undo_dir"} => q.op = "create"
<1> DEFINE q == requests[r]
<1>1. q \in Request /\ q.step \in StepsOf[q.op]
  BY DEF IInv, TypeOK, InSequence
<1>2. q.user \in Users /\ q.op \in Ops
  BY <1>1 DEF Request
<1> HIDE DEF q
<1>3. \/ q.op = "create" \/ q.op = "enable" \/ q.op = "disable"
      \/ q.op = "delete" \/ q.op = "webdav" \/ q.op = "password"
  BY <1>2 DEF Ops, Provisioners, Givers
<1>4. QED
  BY <1>1, <1>2, <1>3 DEF StepsOf, q

-----------------------------------------------------------------------------
(* The steps that leave row and account alone.                             *)

\* The steps a request may go on to without having given a password now.
Onwards(q) == {s \in StepsOf[q.op] : Given([q EXCEPT !.step = s]) => Given(q)}

LEMMA QuietMove ==
    ASSUME IInv, NEW r \in Requests, requests[r] # Null,
           End(r) \/ \E s \in Onwards(requests[r]) : Goto(r, s),
           UNCHANGED <<row, accounts>>,
           dir' \in [Users -> BOOLEAN], share' \in [Users -> BOOLEAN],
           disturbed' \in [Users -> BOOLEAN], cleaned' \in [Users -> BOOLEAN]
    PROVE  IInv'
<1>1. PICK u \in Users : u = requests[r].user
  BY StepTypes
<1>2. requests \in [Requests -> Request \cup {Null}]
  BY DEF IInv, TypeOK
<1>3. /\ requests' = [requests EXCEPT ![r] = requests'[r]]
      /\ Advanced(requests[r], requests'[r])
      /\ Given(requests[r])' => Given(requests[r])
  <2>1. CASE End(r)
    BY <1>2, <2>1 DEF End, Advanced, Given
  <2>2. ASSUME NEW s \in Onwards(requests[r]), Goto(r, s)
        PROVE  /\ requests' = [requests EXCEPT ![r] = requests'[r]]
               /\ Advanced(requests[r], requests'[r])
               /\ Given(requests[r])' => Given(requests[r])
    <3>1. /\ requests' = [requests EXCEPT ![r] = [requests[r] EXCEPT !.step = s]]
          /\ requests'[r] = [requests[r] EXCEPT !.step = s]
      BY <1>2, <2>2 DEF Goto
    <3>2. QED
      BY <3>1 DEF Onwards, Advanced, Given
  <2>3. QED
    BY <2>1, <2>2
<1>4. StepOf(r, u)
  BY <1>1, <1>3 DEF StepOf, IInv, TypeOK, accounts
<1>5. QED
  BY <1>3, <1>4, QuietStep

(* Each of these steps goes on quietly, or ends.                           *)
LEMMA QuietSteps ==
    ASSUME IInv, NEW r \in Requests,
           \/ InsertFails(r) \/ UpdateFails(r) \/ ReadRow(r) \/ ReadRowFails(r) \/ MakeDir(r)
           \/ ApplyShare(r) \/ SetFlagFails(r) \/ RemoveRowFails(r)
           \/ \E b \in BOOLEAN :
                \/ MakeDirFails(r, b) \/ ShareFails(r, b) \/ RemoveDir(r, b) \/ UndoDir(r, b)
    PROVE  IInv'
<1> DEFINE q == requests[r]
<1>0. /\ dir \in [Users -> BOOLEAN] /\ share \in [Users -> BOOLEAN]
      /\ disturbed \in [Users -> BOOLEAN] /\ cleaned \in [Users -> BOOLEAN]
  BY DEF IInv, TypeOK
<1>1. q # Null
  BY DEF InsertFails, UpdateFails, ReadRow, ReadRowFails, MakeDir, ApplyShare,
         SetFlagFails, RemoveRowFails, MakeDirFails, ShareFails, RemoveDir, UndoDir, At
<1>2. q.user \in Users
  BY <1>1, StepTypes
<1>3. CASE InsertFails(r) \/ UpdateFails(r) \/ SetFlagFails(r) \/ RemoveRowFails(r)
  BY <1>0, <1>1, <1>2, <1>3, QuietMove
     DEF InsertFails, UpdateFails, SetFlagFails, RemoveRowFails, BreakOff, Disturb, User
<1>4. CASE ReadRow(r)
  <2>1. UNCHANGED <<row, dir, share, accounts, disturbed, cleaned>>
    BY <1>4 DEF ReadRow
  <2>2. End(r) \/ \E s \in Onwards(q) : Goto(r, s)
    <3>1. q.step = "get" /\ q.op \in {"delete", "webdav", "password"}
      BY <1>1, <1>4, StepTypes DEF ReadRow, At
    <3>2. CASE q.op = "delete"
      <4>1. {"share", "remove_row_only"} \subseteq Onwards(q)
        BY <3>2 DEF Onwards, StepsOf, Given
      <4>2. QED
        BY <1>4, <3>2, <4>1 DEF ReadRow, Op
    <3>3. CASE q.op = "webdav"
      <4>1. "mkdir" \in Onwards(q)
        BY <3>3 DEF Onwards, StepsOf, Given
      <4>2. QED
        BY <1>4, <3>3, <4>1 DEF ReadRow, Op
    <3>4. CASE q.op = "password"
      <4>1. "account" \in Onwards(q)
        BY <1>1, <3>1, <3>4 DEF Onwards, StepsOf, Given
      <4>2. QED
        BY <1>4, <3>4, <4>1 DEF ReadRow, Op
    <3>5. QED
      BY <3>1, <3>2, <3>3, <3>4
  <2>3. QED
    BY <1>0, <1>1, <2>1, <2>2, QuietMove
<1>4a. CASE ReadRowFails(r)
  <2>1. q.op = "delete" => "remove_row_only" \in Onwards(q)
    BY DEF Onwards, StepsOf, Given
  <2>2. End(r) \/ \E s \in Onwards(q) : Goto(r, s)
    BY <1>4a, <2>1 DEF ReadRowFails, Op
  <2>3. UNCHANGED <<row, dir, share, accounts, disturbed, cleaned>>
    BY <1>4a DEF ReadRowFails
  <2>4. QED
    BY <1>0, <1>1, <2>2, <2>3, QuietMove
<1>5. CASE MakeDir(r)
  <2>1. UNCHANGED <<row, share, accounts, disturbed, cleaned>> /\ dir' \in [Users -> BOOLEAN]
    BY <1>0, <1>5 DEF MakeDir
  <2>2. End(r) \/ \E s \in Onwards(q) : Goto(r, s)
    <3>1. q.step = "mkdir" /\ q.op \in {"create", "enable", "webdav"}
      BY <1>1, <1>5, StepTypes DEF MakeDir, At
    <3>2. CASE q.op = "create"
      <4>1. "account" \in Onwards(q)
        BY <1>1, <3>1, <3>2 DEF Onwards, StepsOf, Given
      <4>2. QED
        BY <1>5, <3>2, <4>1 DEF MakeDir, Op
    <3>3. CASE q.op = "enable"
      <4>1. "share" \in Onwards(q)
        BY <3>3 DEF Onwards, StepsOf, Given
      <4>2. QED
        BY <1>5, <3>3, <4>1 DEF MakeDir, Op
    <3>4. CASE q.op = "webdav"
      BY <1>5, <3>4 DEF MakeDir, Op
    <3>5. QED
      BY <3>1, <3>2, <3>3, <3>4
  <2>3. QED
    BY <1>0, <1>1, <2>1, <2>2, QuietMove
<1>6. CASE ApplyShare(r)
  <2>1. UNCHANGED <<row, dir, accounts, disturbed, cleaned>> /\ share' \in [Users -> BOOLEAN]
    <3>1. (Op(r) \in {"create", "enable"}) \in BOOLEAN
      OBVIOUS
    <3>2. QED
      BY ONLY <1>0, <1>6, <3>1 DEF ApplyShare
  <2>2. End(r) \/ \E s \in Onwards(q) : Goto(r, s)
    <3>1. q.op \in {"create", "enable", "disable", "delete"}
      BY <1>1, <1>6, StepTypes DEF ApplyShare, At
    <3>2. CASE q.op = "create"
      BY <1>6, <3>2 DEF ApplyShare, Op
    <3>3. CASE q.op = "enable"
      <4>1. "flag" \in Onwards(q)
        BY <3>3 DEF Onwards, StepsOf, Given
      <4>2. QED
        BY <1>6, <3>3, <4>1 DEF ApplyShare, Op
    <3>4. CASE q.op \in {"disable", "delete"}
      <4>1. "rmdir" \in Onwards(q)
        BY <3>4 DEF Onwards, StepsOf, Given
      <4>2. QED
        BY <1>6, <3>4, <4>1 DEF ApplyShare, Op
    <3>5. QED
      BY <3>1, <3>2, <3>3, <3>4
  <2>3. QED
    BY <1>0, <1>1, <2>1, <2>2, QuietMove
<1>7. ASSUME NEW b \in BOOLEAN, MakeDirFails(r, b)
      PROVE  IInv'
  <2>1. /\ UNCHANGED <<row, share, accounts, cleaned>> /\ dir' \in [Users -> BOOLEAN]
        /\ disturbed' \in [Users -> BOOLEAN]
    BY <1>0, <1>2, <1>7 DEF MakeDirFails, BreakOff, Disturb, User
  <2>2. End(r) \/ \E s \in Onwards(q) : Goto(r, s)
    <3>1. q.op = "create" => "undo_row" \in Onwards(q)
      BY DEF Onwards, StepsOf, Given
    <3>2. QED
      BY <1>7, <3>1 DEF MakeDirFails, BreakOff, Op
  <2>3. QED
    BY <1>0, <1>1, <2>1, <2>2, QuietMove
<1>8. ASSUME NEW b \in BOOLEAN, ShareFails(r, b)
      PROVE  IInv'
  <2>1. /\ UNCHANGED <<row, dir, accounts, cleaned>> /\ share' \in [Users -> BOOLEAN]
        /\ disturbed' \in [Users -> BOOLEAN]
    <3>1. (Op(r) \in {"create", "enable"}) \in BOOLEAN
      OBVIOUS
    <3>2. share' \in [Users -> BOOLEAN]
      BY ONLY <1>0, <1>8, <3>1 DEF ShareFails
    <3>3. disturbed' \in [Users -> BOOLEAN]
      BY <1>0, <1>2, <1>8 DEF ShareFails, BreakOff, Disturb, User
    <3>4. QED
      BY <1>8, <3>2, <3>3 DEF ShareFails, BreakOff
  <2>2. End(r) \/ \E s \in Onwards(q) : Goto(r, s)
    <3>1. q.op = "create" => "undo_row_and_dir" \in Onwards(q)
      BY DEF Onwards, StepsOf, Given
    <3>2. QED
      BY <1>8, <3>1 DEF ShareFails, BreakOff, Op
  <2>3. QED
    BY <1>0, <1>1, <2>1, <2>2, QuietMove
<1>9. ASSUME NEW b \in BOOLEAN, RemoveDir(r, b)
      PROVE  IInv'
  <2>1. /\ UNCHANGED <<row, share, accounts, cleaned>> /\ dir' \in [Users -> BOOLEAN]
        /\ disturbed' \in [Users -> BOOLEAN]
    BY <1>0, <1>2, <1>9 DEF RemoveDir, BreakOff, Disturb, User
  <2>2. End(r) \/ \E s \in Onwards(q) : Goto(r, s)
    <3>1. /\ q.op = "disable" => "flag" \in Onwards(q)
          /\ q.op = "delete" => "remove" \in Onwards(q)
      BY DEF Onwards, StepsOf, Given
    <3>2. q.op \in {"disable", "delete"}
      BY <1>1, <1>9, StepTypes DEF RemoveDir, At
    <3>3. CASE b
      BY <1>9, <3>1, <3>2, <3>3 DEF RemoveDir, Op
    <3>4. CASE ~b
      BY <1>9, <3>4 DEF RemoveDir, BreakOff
    <3>5. QED
      BY <3>3, <3>4
  <2>3. QED
    BY <1>0, <1>1, <2>1, <2>2, QuietMove
<1>10. ASSUME NEW b \in BOOLEAN, UndoDir(r, b)
       PROVE  IInv'
  <2>1. /\ UNCHANGED <<row, share, accounts, cleaned>> /\ dir' \in [Users -> BOOLEAN]
        /\ disturbed' \in [Users -> BOOLEAN] /\ End(r)
    BY <1>0, <1>2, <1>10 DEF UndoDir, BreakOff, Disturb, User
  <2>2. QED
    BY <1>0, <1>1, <2>1, QuietMove
<1>11. QED
  BY <1>3, <1>4, <1>4a, <1>5, <1>6, <1>7, <1>8, <1>9, <1>10

-----------------------------------------------------------------------------
(* The steps that change the row or the account.                           *)

(* A request that gives the row a password owes it to the account, and     *)
(* every other request on its way there is known not to be alone.          *)
LEMMA GiveKeeps ==
    ASSUME IInv, NEW r \in Requests, NEW u \in Users, StepOf(r, u),
           requests[r].op \in Givers,
           GivePassword(r)
    PROVE  IInv'
<1>1. requests[r] \in Request /\ requests[r].secret \in Secrets \cup {Null}
  BY DEF IInv, TypeOK, StepOf, Request
<1>2. /\ password'[u] = requests[r].secret /\ unsynced'[u]
      /\ account' = account
  BY DEF IInv, TypeOK, StepOf, GivePassword, User
<1>3. \A s \in Requests \ {r} : requests'[s] = requests[s] /\ Apart(requests[r], requests[s])
  BY DEF IInv, TypeOK, StepOf
<1>4. ASSUME NEW s \in Requests \ {r}, requests[s] # Null, requests[s].user = u
      PROVE  Owing(requests[s])' /\ Latest(requests[s])'
  <2>1. Given(requests[s]) => ~requests[s].alone
    <3>1. Given(requests[s]) => requests[s].op \in Givers
      BY <1>4, StepTypes DEF Given, Givers
    <3>2. QED
      BY <1>3, <1>4, <3>1 DEF Apart, StepOf
  <2>2. QED
    BY <1>2, <1>3, <1>4, <2>1 DEF Owing, Latest
<1>5. Owing(requests[r])' /\ Latest(requests[r])'
  <2>1. requests'[r] # Null => /\ requests'[r].user = u
                               /\ requests'[r].secret = requests[r].secret
    BY <1>1, AdvancedType DEF StepOf
  <2>2. QED
    BY <1>2, <2>1 DEF Owing, Latest, Given
<1>6. QED
  BY <1>2, <1>4, <1>5, StepKeeps

LEMMA InsertKeeps ==
    ASSUME IInv, NEW r \in Requests, InsertRow(r)
    PROVE  IInv'
<1> DEFINE q == requests[r]
<1>1. q # Null /\ q.step = "insert"
  BY DEF InsertRow, At
<1>2. q \in Request /\ q.user \in Users /\ q.op = "create"
  BY <1>1, StepTypes
<1>3. PICK u \in Users : u = q.user
  BY <1>2
<1>4. requests' = [requests EXCEPT ![r] = requests'[r]] /\ Advanced(q, requests'[r])
  <2>1. requests \in [Requests -> Request \cup {Null}]
    BY DEF IInv, TypeOK
  <2>2. "mkdir" \in StepsOf[q.op]
    BY <1>2 DEF StepsOf
  <2>3. End(r) \/ Goto(r, "mkdir")
    BY DEF InsertRow
  <2>4. QED
    BY <2>1, <2>2, <2>3 DEF End, Goto, Advanced
<1>5. row' \in [Users -> Rows] /\ \A v \in Users \ {u} : row'[v] = row[v]
  BY <1>3 DEF InsertRow, IInv, TypeOK, Rows, User
<1>6. /\ password' \in [Users -> Secrets \cup {Null}] /\ account' = account
      /\ unsynced' \in [Users -> BOOLEAN]
      /\ \A v \in Users \ {u} : password'[v] = password[v] /\ unsynced'[v] = unsynced[v]
  BY <1>2, <1>3 DEF InsertRow, GivePassword, IInv, TypeOK, User, Request
<1>7. StepOf(r, u)
  BY <1>1, <1>3, <1>4, <1>5, <1>6 DEF StepOf, InsertRow, IInv, TypeOK
<1>8. QED
  BY <1>2, <1>7, GiveKeeps DEF InsertRow, Givers

LEMMA UpdateKeeps ==
    ASSUME IInv, NEW r \in Requests, UpdatePassword(r)
    PROVE  IInv'
<1> DEFINE q == requests[r]
<1>1. q # Null /\ q.step = "update"
  BY DEF UpdatePassword, At
<1>2. q \in Request /\ q.user \in Users /\ q.op = "password"
  BY <1>1, StepTypes
<1>3. PICK u \in Users : u = q.user
  BY <1>2
<1>4. /\ requests' = [requests EXCEPT ![r] = requests'[r]] /\ Advanced(q, requests'[r])
      /\ requests'[r] = [q EXCEPT !.step = "get"]
  <2>1. requests \in [Requests -> Request \cup {Null}]
    BY DEF IInv, TypeOK
  <2>2. "get" \in StepsOf[q.op]
    BY <1>2 DEF StepsOf
  <2>3. QED
    BY <2>1, <2>2 DEF UpdatePassword, Goto, Advanced
<1>5. CASE row[u] # "none"
  <2>1. GivePassword(r) /\ UNCHANGED <<row, dir, share, disturbed, cleaned>>
    BY <1>3, <1>5 DEF UpdatePassword, User
  <2>2. /\ password' \in [Users -> Secrets \cup {Null}] /\ account' = account
        /\ unsynced' \in [Users -> BOOLEAN]
        /\ \A v \in Users \ {u} : password'[v] = password[v] /\ unsynced'[v] = unsynced[v]
    BY <1>2, <1>3, <2>1 DEF GivePassword, IInv, TypeOK, User, Request
  <2>3. StepOf(r, u)
    BY <1>1, <1>3, <1>4, <2>1, <2>2 DEF StepOf, IInv, TypeOK
  <2>4. QED
    BY <1>2, <2>1, <2>3, GiveKeeps DEF Givers
<1>6. CASE row[u] = "none"
  <2>1. UNCHANGED <<row, password, account, unsynced, dir, share, disturbed, cleaned>>
    BY <1>3, <1>6 DEF UpdatePassword, User, accounts
  <2>2. StepOf(r, u)
    BY <1>1, <1>3, <1>4, <2>1 DEF StepOf, IInv, TypeOK
  <2>3. requests'[r].user = u
    BY <1>2, <1>3, <1>4 DEF Request
  <2>4. \A s \in Requests \ {r} : requests'[s] = requests[s]
    BY <1>4 DEF IInv, TypeOK
  <2>5. QED
    BY <1>6, <2>1, <2>2, <2>3, <2>4, StepKeeps DEF Owing, Latest
<1>7. QED
  BY <1>5, <1>6

(* The account: a request that is alone writes what the row has, and no    *)
(* other has given the row a password meanwhile.                           *)
LEMMA SyncKeeps ==
    ASSUME IInv, NEW r \in Requests, NEW ok \in BOOLEAN, NEW done \in BOOLEAN,
           SyncAccount(r, ok, done)
    PROVE  IInv'
<1> DEFINE q == requests[r]
<1>1. q # Null /\ q.step = "account"
  BY DEF SyncAccount, At
<1>2. /\ q \in Request /\ q.op \in {"create", "password"}
      /\ q.secret \in Secrets \cup {Null} /\ q.alone \in BOOLEAN
  BY <1>1, StepTypes DEF Request
<1>3. PICK u \in Users : u = q.user
  BY <1>1, StepTypes
<1>4. /\ requests' = [requests EXCEPT ![r] = requests'[r]] /\ Advanced(q, requests'[r])
      /\ ~Given(requests[r])'
  <2>1. requests \in [Requests -> Request \cup {Null}]
    BY DEF IInv, TypeOK
  <2>2. q.op = "create" => {"share", "undo_row_and_dir"} \subseteq StepsOf[q.op]
    BY DEF StepsOf
  <2>3. CASE q.op = "password"
    BY <2>1, <2>3 DEF SyncAccount, End, Advanced, Given, Op
  <2>4. ASSUME q.op = "create", NEW s \in {"share", "undo_row_and_dir"}, Goto(r, s)
        PROVE  /\ requests' = [requests EXCEPT ![r] = requests'[r]]
               /\ Advanced(q, requests'[r])
               /\ ~Given(requests[r])'
    <3>1. /\ requests' = [requests EXCEPT ![r] = [q EXCEPT !.step = s]]
          /\ requests'[r] = [q EXCEPT !.step = s]
      BY <2>1, <2>4 DEF Goto
    <3>2. requests'[r].step = s /\ requests'[r].op = "create"
      BY ONLY <1>2, <2>4, <3>1 DEF Request
    <3>3. QED
      BY <2>2, <2>4, <3>1, <3>2 DEF Advanced, Given
  <2>5. QED
    BY <1>2, <2>3, <2>4 DEF SyncAccount, Op
<1>5. /\ password' = password /\ UNCHANGED <<row, dir, share, disturbed, cleaned>>
      /\ account' = [account EXCEPT ![u] = IF done THEN q.secret ELSE account[u]]
      /\ unsynced' = [unsynced EXCEPT ![u] = unsynced[u] /\ ~(done /\ q.alone)]
  BY <1>3 DEF SyncAccount, SetAccount, User
<1>6. /\ account' \in [Users -> Secrets \cup {Null}]
      /\ account'[u] = IF done THEN q.secret ELSE account[u]
  BY <1>2, <1>5 DEF IInv, TypeOK
<1>7. /\ unsynced' \in [Users -> BOOLEAN]
      /\ unsynced'[u] = (unsynced[u] /\ ~(done /\ q.alone))
  BY <1>5 DEF IInv, TypeOK
<1>8. StepOf(r, u)
  <2>1. \A v \in Users \ {u} : account'[v] = account[v] /\ unsynced'[v] = unsynced[v]
    BY <1>5 DEF IInv, TypeOK
  <2>2. QED
    BY <1>1, <1>3, <1>4, <1>5, <1>6, <1>7, <2>1 DEF StepOf, IInv, TypeOK
<1>9. Owing(q) /\ Latest(q) /\ Given(q)
  BY <1>1 DEF IInv, Given
<1>10. row'[u] = "on" /\ ~unsynced'[u] => account'[u] = password'[u]
  <2>1. SUFFICES ASSUME row[u] = "on", ~unsynced'[u]
                 PROVE  account'[u] = password[u]
    BY <1>5
  <2>2. CASE done
    <3>1. unsynced[u]
      BY <1>3, <1>9, <2>1 DEF Owing
    <3>2. q.alone
      BY <1>7, <2>1, <3>1
    <3>3. password[u] = q.secret
      BY <1>3, <1>9, <2>1, <3>2 DEF Latest
    <3>4. QED
      BY <1>6, <2>2, <3>3
  <2>3. CASE ~done
    BY <1>6, <1>7, <2>1, <2>3 DEF IInv, AccountInStep
  <2>4. QED
    BY <2>2, <2>3
<1>11. ASSUME NEW s \in Requests \ {r}, requests[s] # Null, requests[s].user = u
       PROVE  Owing(requests[s])' /\ Latest(requests[s])'
  <2>1. requests'[s] = requests[s] /\ Apart(requests[r], requests[s])
    BY <1>4 DEF IInv, TypeOK
  <2>2. Given(requests[s]) => ~q.alone
    <3>1. Given(requests[s]) => requests[s].op \in Givers
      BY <1>11, StepTypes DEF Given, Givers
    <3>2. q.op \in Givers
      BY <1>2 DEF Givers
    <3>3. QED
      BY <1>1, <1>3, <1>11, <2>1, <3>1, <3>2 DEF Apart
  <2>3. Owing(requests[s]) /\ Latest(requests[s])
    BY DEF IInv
  <2>4. QED
    BY <1>5, <1>7, <1>11, <2>1, <2>2, <2>3 DEF Owing, Latest
<1>12. Owing(requests[r])' /\ Latest(requests[r])'
  BY <1>4 DEF Owing, Latest
<1>13. QED
  BY <1>8, <1>10, <1>11, <1>12, StepKeeps

(* Enabling a user who was disabled leaves the account out of step.        *)
LEMMA FlagKeeps ==
    ASSUME IInv, NEW r \in Requests, SetFlag(r)
    PROVE  IInv'
<1> DEFINE q == requests[r]
<1>1. q # Null /\ q.op \in {"enable", "disable"}
  BY StepTypes DEF SetFlag, At
<1>2. PICK u \in Users : u = q.user
  BY <1>1, StepTypes
<1>3. /\ requests' = [requests EXCEPT ![r] = requests'[r]] /\ requests'[r] = Null
      /\ \A s \in Requests \ {r} : requests'[s] = requests[s]
  BY DEF SetFlag, End, IInv, TypeOK
<1>4. /\ row[u] # "none" /\ UNCHANGED <<dir, share, password, account>>
      /\ row' = [row EXCEPT ![u] = IF q.op = "enable" THEN "on" ELSE "off"]
      /\ unsynced' = [unsynced EXCEPT ![u] = unsynced[u] \/ (q.op = "enable" /\ row[u] = "off")]
  BY <1>2 DEF SetFlag, User, Op
<1>5. /\ row' \in [Users -> Rows]
      /\ row'[u] = IF q.op = "enable" THEN "on" ELSE "off"
      /\ \A v \in Users \ {u} : row'[v] = row[v]
  BY <1>4 DEF IInv, TypeOK, Rows
<1>6. /\ unsynced' \in [Users -> BOOLEAN]
      /\ unsynced'[u] = (unsynced[u] \/ (q.op = "enable" /\ row[u] = "off"))
      /\ \A v \in Users \ {u} : unsynced'[v] = unsynced[v]
  BY <1>4 DEF IInv, TypeOK
<1>7. disturbed' \in [Users -> BOOLEAN] /\ cleaned' \in [Users -> BOOLEAN]
  <2>1. (q.op = "disable") \in BOOLEAN
    OBVIOUS
  <2>2. q.alone \in BOOLEAN
    BY <1>1, StepTypes DEF Request
  <2>3. disturbed' \in [Users -> BOOLEAN]
    BY <1>2, <2>2 DEF SetFlag, Settled, User, IInv, TypeOK
  <2>4. cleaned' \in [Users -> BOOLEAN]
    BY <1>2, <2>1 DEF SetFlag, User, Op, IInv, TypeOK
  <2>5. QED
    BY <2>3, <2>4
<1>8. StepOf(r, u)
  BY <1>1, <1>2, <1>3, <1>4, <1>5, <1>6, <1>7 DEF StepOf, Advanced, IInv, TypeOK
<1>9. row'[u] = "on" /\ ~unsynced'[u] => account'[u] = password'[u]
  <2>1. row[u] \in {"on", "off"}
    BY <1>4 DEF IInv, TypeOK, Rows
  <2>2. row[u] = "on" /\ ~unsynced[u] => account[u] = password[u]
    BY DEF IInv, AccountInStep
  <2>3. QED
    BY <1>1, <1>4, <1>5, <1>6, <2>1, <2>2
<1>10. ASSUME NEW s \in Requests \ {r}, requests[s] # Null, requests[s].user = u
       PROVE  Owing(requests[s])' /\ Latest(requests[s])'
  <2>1. Owing(requests[s]) /\ Latest(requests[s])
    BY DEF IInv
  <2>2. QED
    BY <1>3, <1>4, <1>6, <1>10, <2>1 DEF Owing, Latest
<1>11. Owing(requests[r])' /\ Latest(requests[r])'
  BY <1>3 DEF Owing, Latest, Given
<1>12. QED
  BY <1>8, <1>9, <1>10, <1>11, StepKeeps

(* A row that is gone is in step with any account.                         *)
LEMMA RowGoneKeeps ==
    ASSUME IInv, NEW r \in Requests, NEW u \in Users, StepOf(r, u), row'[u] = "none",
           requests'[r] = Null \/ requests'[r].user = u
    PROVE  IInv'
<1>1. \A s \in Requests \ {r} : requests'[s] = requests[s]
  BY DEF IInv, TypeOK, StepOf
<1>2. \A s \in Requests \ {r} :
         requests[s] # Null /\ requests[s].user = u
             => Owing(requests[s])' /\ Latest(requests[s])'
  BY <1>1 DEF Owing, Latest
<1>3. Owing(requests[r])' /\ Latest(requests[r])'
  BY DEF Owing, Latest, Given
<1>4. QED
  BY <1>2, <1>3, StepKeeps

LEMMA RemoveKeeps ==
    ASSUME IInv, NEW r \in Requests, RemoveRow(r)
    PROVE  IInv'
<1>1. requests[r] # Null
  BY DEF RemoveRow, At
<1>2. PICK u \in Users : u = requests[r].user
  BY <1>1, StepTypes
<1>3. /\ requests' = [requests EXCEPT ![r] = requests'[r]] /\ requests'[r] = Null
  BY DEF RemoveRow, End, IInv, TypeOK
<1>4. /\ row' = [row EXCEPT ![u] = "none"] /\ password' = [password EXCEPT ![u] = Null]
      /\ UNCHANGED <<dir, share, account, unsynced>>
      /\ cleaned' = [cleaned EXCEPT ![u] = TRUE]
  BY <1>2 DEF RemoveRow, User
<1>5. /\ row' \in [Users -> Rows] /\ row'[u] = "none"
      /\ \A v \in Users \ {u} : row'[v] = row[v] /\ password'[v] = password[v]
      /\ password' \in [Users -> Secrets \cup {Null}] /\ cleaned' \in [Users -> BOOLEAN]
  BY <1>4 DEF IInv, TypeOK, Rows
<1>6. disturbed' \in [Users -> BOOLEAN]
  <2>1. requests[r].alone \in BOOLEAN
    BY <1>1, StepTypes DEF Request
  <2>2. (row[u] = "on") \in BOOLEAN
    OBVIOUS
  <2>3. QED
    BY <1>2, <2>1, <2>2 DEF RemoveRow, Settled, Disturb, User, IInv, TypeOK
<1>7. StepOf(r, u)
  BY <1>1, <1>2, <1>3, <1>4, <1>5, <1>6 DEF StepOf, Advanced, IInv, TypeOK
<1>8. QED
  BY <1>3, <1>5, <1>7, RowGoneKeeps

LEMMA UndoKeeps ==
    ASSUME IInv, NEW r \in Requests, NEW ok \in BOOLEAN, UndoRow(r, ok)
    PROVE  IInv'
<1> DEFINE q == requests[r]
<1>1. q # Null /\ q.op = "create" /\ q \in Request
  BY StepTypes DEF UndoRow, At
<1>2. PICK u \in Users : u = q.user
  BY <1>1, StepTypes
<1>3. UNCHANGED <<dir, share, account, unsynced, cleaned>> /\ disturbed' \in [Users -> BOOLEAN]
  BY <1>2 DEF UndoRow, Disturb, User, IInv, TypeOK
<1>4. End(r) \/ Goto(r, "undo_dir")
  BY DEF UndoRow
<1>5. CASE ok
  <2>1. /\ row' = [row EXCEPT ![u] = "none"] /\ password' = [password EXCEPT ![u] = Null]
    BY <1>2, <1>5 DEF UndoRow, User
  <2>2. /\ row' \in [Users -> Rows] /\ row'[u] = "none"
        /\ \A v \in Users \ {u} : row'[v] = row[v] /\ password'[v] = password[v]
        /\ password' \in [Users -> Secrets \cup {Null}]
    BY <2>1 DEF IInv, TypeOK, Rows
  <2>3. /\ requests' = [requests EXCEPT ![r] = requests'[r]] /\ Advanced(q, requests'[r])
        /\ requests'[r] = Null \/ requests'[r].user = u
    <3>1. requests \in [Requests -> Request \cup {Null}] /\ "undo_dir" \in StepsOf[q.op]
      BY <1>1 DEF IInv, TypeOK, StepsOf
    <3>2. [q EXCEPT !.step = "undo_dir"].user = u
      BY <1>1, <1>2 DEF Request
    <3>3. QED
      BY <1>4, <3>1, <3>2 DEF End, Goto, Advanced
  <2>4. StepOf(r, u)
    BY <1>1, <1>2, <1>3, <2>2, <2>3 DEF StepOf, IInv, TypeOK
  <2>5. QED
    BY <2>2, <2>3, <2>4, RowGoneKeeps
<1>6. CASE ~ok
  <2>1. UNCHANGED <<row, accounts>>
    BY <1>6, <1>3 DEF UndoRow, accounts, IInv, TypeOK
  <2>2. "undo_dir" \in Onwards(q)
    BY <1>1 DEF Onwards, StepsOf, Given
  <2>3. QED
    BY <1>1, <1>3, <1>4, <2>1, <2>2, QuietMove DEF IInv, TypeOK
<1>7. QED
  BY <1>5, <1>6

-----------------------------------------------------------------------------
(* A request begins: those that may step on its toes are no longer alone.  *)

\* The new request, and what it leaves of the others.
BegunAs(r, op, u) ==
    /\ requests[r] = Null
    /\ requests'[r] \in Request /\ requests'[r] # Null /\ ~Given(requests[r])'
    /\ requests'[r].op = op /\ requests'[r].user = u
    /\ requests'[r].step = FirstStep[op]
    /\ requests'[r].alone = (Rivals(u, op) = {})
    /\ \A t \in Requests \ {r} :
         /\ requests[t] = Null => requests'[t] = Null
         /\ requests[t] # Null =>
              /\ requests'[t] \in Request /\ requests'[t] # Null
              /\ requests'[t].op = requests[t].op /\ requests'[t].user = requests[t].user
              /\ requests'[t].step = requests[t].step
              /\ requests'[t].secret = requests[t].secret
              /\ requests'[t].alone => requests[t].alone /\ t \notin Rivals(u, op)

LEMMA Begun ==
    ASSUME IInv, NEW r \in Requests, NEW op \in Ops, NEW u \in Users, NEW smb \in BOOLEAN,
           NEW s \in Secrets \cup {Null}, Begin(r, op, u, smb, s)
    PROVE  /\ BegunAs(r, op, u) /\ FirstStep[op] \in StepsOf[op]
           /\ UNCHANGED <<row, dir, share, password, account, unsynced>>
<1> DEFINE first == [op |-> op, user |-> u, smb |-> smb, secret |-> s,
                     step |-> FirstStep[op], alone |-> Rivals(u, op) = {}]
<1>1. /\ requests \in [Requests -> Request \cup {Null}] /\ requests[r] = Null
      /\ UNCHANGED <<row, dir, share, password, account, unsynced>>
  BY DEF IInv, TypeOK, Begin, accounts
<1>2. FirstStep[op] \in StepsOf[op] /\ FirstStep[op] \in Steps
  <2>1. \/ op = "create" \/ op = "enable" \/ op = "disable"
        \/ op = "delete" \/ op = "webdav" \/ op = "password"
    BY DEF Ops, Provisioners, Givers
  <2>2. QED
    BY <2>1 DEF FirstStep, StepsOf, Steps
<1>3. first \in Request /\ ~Given(first)
  <2>1. (Rivals(u, op) = {}) \in BOOLEAN
    OBVIOUS
  <2>2. first \in Request
    BY <1>2, <2>1 DEF Request
  <2>3. first.op = op /\ first.step = FirstStep[op]
    OBVIOUS
  <2>4. ~Given(first)
    BY <2>3 DEF Given, FirstStep, Ops, Provisioners, Givers
  <2>5. QED
    BY <2>2, <2>4
<1>4. requests'[r] = first
  BY DEF Begin
<1>5. ASSUME NEW t \in Requests \ {r}
      PROVE  /\ requests[t] = Null => requests'[t] = Null
             /\ requests[t] # Null =>
                  /\ requests'[t] \in Request /\ requests'[t] # Null
                  /\ requests'[t].op = requests[t].op /\ requests'[t].user = requests[t].user
                  /\ requests'[t].step = requests[t].step
                  /\ requests'[t].secret = requests[t].secret
                  /\ requests'[t].alone => requests[t].alone /\ t \notin Rivals(u, op)
  <2>1. Rivals(u, op) \subseteq {x \in Requests : requests[x] # Null}
    BY DEF Rivals, On
  <2>2. requests'[t] = IF t \in Rivals(u, op) THEN [requests[t] EXCEPT !.alone = FALSE]
                                              ELSE requests[t]
    BY <1>5 DEF Begin
  <2>3. CASE requests[t] = Null
    BY <2>1, <2>2, <2>3
  <2>4. CASE requests[t] # Null
    <3>1. requests[t] \in Request
      BY <1>1, <2>4
    <3>2. /\ [requests[t] EXCEPT !.alone = FALSE] \in Request
          /\ [requests[t] EXCEPT !.alone = FALSE].op = requests[t].op
          /\ [requests[t] EXCEPT !.alone = FALSE].user = requests[t].user
          /\ [requests[t] EXCEPT !.alone = FALSE].step = requests[t].step
          /\ [requests[t] EXCEPT !.alone = FALSE].secret = requests[t].secret
          /\ [requests[t] EXCEPT !.alone = FALSE].alone = FALSE
      BY ONLY <3>1 DEF Request
    <3>3. [requests[t] EXCEPT !.alone = FALSE] # Null
      BY <3>2, SmbAssumption DEF SmbAssumption
    <3>4. QED
      BY <2>2, <2>4, <3>1, <3>2, <3>3
  <2>5. QED
    BY <2>3, <2>4
<1>6. first # Null
  BY <1>3, SmbAssumption DEF SmbAssumption
<1>7. first.op = op /\ first.user = u /\ first.step = FirstStep[op]
      /\ first.alone = (Rivals(u, op) = {})
  OBVIOUS
<1> HIDE DEF first
<1>8. ~Given(requests[r])'
  BY <1>3, <1>4, <1>7 DEF Given
<1>9. QED
  BY <1>1, <1>2, <1>3, <1>4, <1>5, <1>6, <1>7, <1>8 DEF BegunAs

(* Two requests that step on each other's toes: neither is alone any more. *)
LEMMA NoneAlone ==
    ASSUME NEW r \in Requests, NEW op \in Ops, NEW u \in Users, BegunAs(r, op, u),
           NEW t \in Requests \ {r}, requests'[t] # Null, requests'[t].user = u,
           NEW ops \in {Provisioners, Givers}, op \in ops, requests'[t].op \in ops
    PROVE  ~requests'[t].alone /\ ~requests'[r].alone
<1>1. requests[t] # Null /\ requests[t].user = u /\ requests[t].op \in ops
  BY DEF BegunAs
<1>2. t \in Rivals(u, op)
  BY <1>1 DEF Rivals, On
<1>3. QED
  BY <1>1, <1>2 DEF BegunAs

LEMMA BeginKeeps ==
    ASSUME IInv, NEW r \in Requests, NEW op \in Ops, NEW u \in Users, NEW smb \in BOOLEAN,
           NEW s \in Secrets \cup {Null}, Begin(r, op, u, smb, s)
    PROVE  IInv'
<1>1. /\ BegunAs(r, op, u) /\ FirstStep[op] \in StepsOf[op]
      /\ UNCHANGED <<row, dir, share, password, account, unsynced>>
  BY Begun
<1>2. TypeOK'
  <2>1. requests' \in [Requests -> Request \cup {Null}]
    <3>1. requests' = [q \in Requests |-> requests'[q]]
      BY DEF Begin
    <3>2. \A t \in Requests : requests'[t] \in Request \cup {Null}
      BY <1>1 DEF BegunAs, IInv, TypeOK
    <3>3. QED
      BY <3>1, <3>2
  <2>2. disturbed' \in [Users -> BOOLEAN] /\ cleaned' \in [Users -> BOOLEAN]
    <3>1. /\ (op \in Provisioners /\ ~Quiet(u)) \in BOOLEAN
          /\ (op \notin {"create", "enable"}) \in BOOLEAN
      OBVIOUS
    <3>2. QED
      BY <3>1 DEF Begin, IInv, TypeOK
  <2>3. QED
    BY <1>1, <2>1, <2>2 DEF IInv, TypeOK
<1>3. InSequence'
  BY <1>1 DEF BegunAs, IInv, InSequence
<1>4. AccountInStep'
  BY <1>1 DEF IInv, AccountInStep
<1>5. ASSUME NEW t \in Requests
       PROVE  Owing(requests[t])' /\ Latest(requests[t])'
  <2>1. CASE t = r
    BY <1>1, <2>1 DEF BegunAs, Owing, Latest
  <2>2. CASE t # r /\ requests[t] = Null
    BY <1>1, <2>2 DEF BegunAs, Owing, Latest, Given
  <2>3. CASE t # r /\ requests[t] # Null
    <3>1. Owing(requests[t]) /\ Latest(requests[t])
      BY DEF IInv
    <3>2. QED
      BY <1>1, <2>3, <3>1 DEF BegunAs, Owing, Latest, Given
  <2>4. QED
    BY <2>1, <2>2, <2>3
<1>6. ASSUME NEW t \in Requests, NEW x \in Requests, t # x
       PROVE  Apart(requests[t], requests[x])'
  <2>1. Apart(requests[t], requests[x])
    BY <1>6 DEF IInv
  <2>2. CASE t # r /\ x # r
    BY <1>1, <2>1, <2>2 DEF BegunAs, Apart
  <2>0. requests'[r] # Null /\ requests'[r].op = op /\ requests'[r].user = u
    BY <1>1 DEF BegunAs
  <2>3. ASSUME NEW y \in Requests \ {r}, requests'[y] # Null,
               requests'[y].user = u, op \in Givers, requests'[y].op \in Givers
        PROVE  ~requests'[y].alone /\ ~requests'[r].alone
    BY <1>1, <2>3, NoneAlone
  <2>4. CASE t = r
    BY <1>6, <2>0, <2>4, <2>3 DEF Apart
  <2>5. CASE x = r
    BY <1>6, <2>0, <2>5, <2>3 DEF Apart
  <2>6. QED
    BY <2>2, <2>4, <2>5
<1>7. QED
  BY <1>2, <1>3, <1>4, <1>5, <1>6 DEF IInv

-----------------------------------------------------------------------------
(* The invariant.                                                          *)

LEMMA InitInv == Init => IInv
BY DEF Init, IInv, TypeOK, InSequence, AccountInStep, Owing, Latest, Given, Apart, Rows

LEMMA RestartKeeps ==
    ASSUME IInv, Restart
    PROVE  IInv'
<1>1. /\ UNCHANGED <<row, dir, share, password, account, unsynced, cleaned>>
      /\ \A r \in Requests : requests'[r] = Null
      /\ requests' \in [Requests -> Request \cup {Null}]
  BY DEF Restart, accounts
<1>2. disturbed' \in [Users -> BOOLEAN]
  BY DEF Restart, IInv, TypeOK
<1>3. QED
  BY <1>1, <1>2 DEF IInv, TypeOK, InSequence, AccountInStep, Owing, Latest, Given, Apart

LEMMA StepInv == IInv /\ [Next]_vars => IInv'
<1> SUFFICES ASSUME IInv, [Next]_vars PROVE IInv'
  OBVIOUS
<1>1. CASE UNCHANGED vars
  BY <1>1 DEF vars, accounts, IInv, TypeOK, InSequence, AccountInStep, Owing, Latest, Given, Apart
<1>2. CASE Restart
  BY <1>2, RestartKeeps
<1>3. ASSUME NEW r \in Requests, RequestStep(r)
      PROVE  IInv'
  BY <1>3, QuietSteps, BeginKeeps, InsertKeeps, UpdateKeeps, SyncKeeps, FlagKeeps,
     RemoveKeeps, UndoKeeps DEF RequestStep
<1>4. QED
  BY <1>1, <1>2, <1>3 DEF Next

(* Rows, directories, shares and accounts keep their types in every order  *)
(* of the handlers' steps and failures.                                    *)
THEOREM TypeCorrect == Spec => []TypeOK
<1>1. IInv => TypeOK
  BY DEF IInv
<1>2. QED
  BY <1>1, InitInv, StepInv, PTL DEF Spec

(* The Samba account of an enabled user has the password of the row, but   *)
(* for one whose last password was given by requests that overlapped or    *)
(* broke off, and one enabled later (api.go:460-465, 865-889, 945-966).    *)
THEOREM AccountFollows == Spec => []AccountInStep
<1>1. IInv => AccountInStep
  BY DEF IInv
<1>2. QED
  BY <1>1, InitInv, StepInv, PTL DEF Spec

-----------------------------------------------------------------------------
(* Directory and share follow the flag.                                    *)

Matched(u) == dir[u] = (row[u] = "on") /\ share[u] = (row[u] = "on")

\* What the only request on a user, undisturbed, must find at each of its steps.
Expected(q) ==
    LET u == q.user
        on == row[u] = "on"
    IN  /\ q.op \in {"create", "webdav", "delete"} /\ q.step \in {"insert", "get"} => Matched(u)
        /\ q.op = "create" /\ q.step \in {"mkdir", "undo_row"} => on /\ ~dir[u] /\ ~share[u]
        /\ q.op = "create" /\ q.step \in {"account", "share", "undo_row_and_dir"} =>
              on /\ dir[u] /\ ~share[u]
        /\ q.step = "undo_dir" => ~on /\ dir[u] /\ ~share[u]
        /\ q.op = "enable" /\ q.step = "mkdir" => Matched(u)
        /\ q.op = "enable" /\ q.step = "share" => dir[u] /\ share[u] = on
        /\ q.op = "enable" /\ q.step = "flag" => dir[u] /\ share[u]
        /\ q.op = "disable" /\ q.step = "share" => Matched(u)
        /\ q.op = "disable" /\ q.step = "flag" => ~dir[u] /\ ~share[u]
        /\ q.op = "delete" /\ q.step = "share" => Matched(u) /\ on
        /\ q.step = "remove" => ~dir[u] /\ ~share[u]
        /\ q.step = "remove_row_only" => Matched(u)
        /\ q.op = "webdav" /\ q.step = "mkdir" => Matched(u) /\ on

\* What a request that is alone has achieved, whatever others left behind before it.
Undone(q) ==
    /\ q.step = "rmdir" => ~share[q.user]
    /\ (q.op = "disable" /\ q.step = "flag") \/ q.step = "remove" =>
          ~dir[q.user] /\ ~share[q.user]

InOrder(q) ==
    q # Null /\ q.op \in Provisioners =>
        /\ ~disturbed[q.user] => Expected(q) /\ Undone(q)
        /\ q.alone => Undone(q)

\* Two that overlap know it, and the user is marked.
Marked(p, q) ==
    p # Null /\ q # Null /\ p.op \in Provisioners /\ q.op \in Provisioners /\ p.user = q.user
        => ~p.alone /\ ~q.alone /\ disturbed[p.user]

ShareInv ==
    /\ \A r \in Requests : InOrder(requests[r])
    /\ \A r, s \in Requests : r # s => Marked(requests[r], requests[s])
    /\ ProvisionedIffEnabled

(* What a handler of these knows before each of its steps.                 *)
LEMMA Before ==
    ASSUME IInv, ShareInv, NEW r \in Requests, requests[r] # Null, requests[r].op \in Provisioners
    PROVE  LET q == requests[r] IN
           /\ q.user \in Users /\ q.alone \in BOOLEAN
           /\ dir[q.user] \in BOOLEAN /\ share[q.user] \in BOOLEAN
           /\ row[q.user] \in Rows /\ disturbed[q.user] \in BOOLEAN
           /\ ~disturbed[q.user] => Expected(q) /\ Undone(q)
           /\ q.alone => Undone(q)
<1>1. requests[r] \in Request /\ requests[r].user \in Users
  BY StepTypes
<1>2. requests[r].alone \in BOOLEAN
  BY <1>1 DEF Request
<1>3. InOrder(requests[r])
  BY DEF ShareInv
<1>4. QED
  BY <1>1, <1>2, <1>3 DEF InOrder, IInv, TypeOK

(* How a request goes on, or ends.                                         *)
LEMMA GoesOn ==
    ASSUME IInv, NEW r \in Requests, requests[r] # Null,
           NEW s \in StepsOf[requests[r].op], Goto(r, s)
    PROVE  /\ requests' = [requests EXCEPT ![r] = requests'[r]]
           /\ Advanced(requests[r], requests'[r]) /\ requests'[r] # Null
           /\ requests'[r].op = requests[r].op /\ requests'[r].user = requests[r].user
           /\ requests'[r].alone = requests[r].alone /\ requests'[r].step = s
<1>1. requests \in [Requests -> Request \cup {Null}] /\ requests[r] \in Request
  BY DEF IInv, TypeOK
<1>2. /\ requests'[r] = [requests[r] EXCEPT !.step = s]
      /\ requests' = [requests EXCEPT ![r] = requests'[r]]
  BY <1>1 DEF Goto
<1>3. PICK q \in Request : q = requests[r]
  BY <1>1
<1>4. s \in Steps
  <2>1. q.op \in Ops
    BY ONLY q \in Request DEF Request
  <2>2. QED
    BY <1>3, <2>1, StepsAreSteps
<1>5. /\ [q EXCEPT !.step = s] \in Request
      /\ [q EXCEPT !.step = s].op = q.op /\ [q EXCEPT !.step = s].user = q.user
      /\ [q EXCEPT !.step = s].alone = q.alone /\ [q EXCEPT !.step = s].step = s
  BY ONLY <1>4, q \in Request DEF Request
<1>6. [q EXCEPT !.step = s] # Null
  BY <1>5, SmbAssumption DEF SmbAssumption
<1>7. QED
  BY <1>2, <1>3, <1>5, <1>6 DEF Advanced

LEMMA Ends ==
    ASSUME IInv, NEW r \in Requests, requests[r] # Null, End(r)
    PROVE  /\ requests' = [requests EXCEPT ![r] = requests'[r]]
           /\ Advanced(requests[r], requests'[r]) /\ requests'[r] = Null
BY DEF IInv, TypeOK, End, Advanced

\* A step of a request on u leaves other users and other requests alone.
Touches(r, u) ==
    /\ requests[r] # Null /\ requests[r].user = u
    /\ requests' = [requests EXCEPT ![r] = requests'[r]]
    /\ Advanced(requests[r], requests'[r])
    /\ \A v \in Users \ {u} : /\ row'[v] = row[v] /\ dir'[v] = dir[v]
                              /\ share'[v] = share[v] /\ disturbed'[v] = disturbed[v]

(* What such a step owes the invariant: only a request that is alone may   *)
(* take the mark from its user, and only as its last step.                 *)
LEMMA StepFits ==
    ASSUME IInv, ShareInv, NEW r \in Requests, NEW u \in Users, Touches(r, u),
           requests[r].op \in Provisioners, disturbed[u] \in BOOLEAN,
           disturbed[u] /\ ~disturbed'[u] => requests[r].alone /\ requests'[r] = Null,
           requests'[r] = Null /\ ~disturbed'[u] => Matched(u)',
           requests'[r] # Null => InOrder(requests[r])'
    PROVE  ShareInv'
<1>1. /\ requests \in [Requests -> Request \cup {Null}] /\ requests[r] \in Request
      /\ \A s \in Requests \ {r} : requests'[s] = requests[s]
  BY DEF IInv, TypeOK, Touches
<1>2. requests'[r] # Null => /\ requests'[r].op = requests[r].op /\ requests'[r].user = u
                             /\ requests'[r].alone = requests[r].alone
  BY <1>1, AdvancedType DEF Touches
<1>3. ASSUME NEW s \in Requests, s # r, requests[s] # Null, requests[s].user = u,
             requests[s].op \in Provisioners
      PROVE  disturbed'[u] /\ ~requests[s].alone
  BY <1>3 DEF ShareInv, Marked, Touches
<1>4. ASSUME NEW s \in Requests
      PROVE  InOrder(requests[s])'
  <2>1. CASE s = r
    BY <2>1 DEF InOrder
  <2>2. CASE s # r /\ (requests[s] = Null \/ requests[s].op \notin Provisioners)
    BY <1>1, <2>2 DEF InOrder
  <2>3. CASE s # r /\ requests[s] # Null /\ requests[s].user = u /\ requests[s].op \in Provisioners
    BY <1>1, <1>3, <2>3 DEF InOrder
  <2>4. CASE s # r /\ requests[s] # Null /\ requests[s].user # u
    <3>1. PICK v \in Users \ {u} : v = requests[s].user
      BY <1>1, <2>4 DEF Request
    <3>2. InOrder(requests[s]) /\ requests'[s] = requests[s]
      BY <1>1, <2>4 DEF ShareInv
    <3>3. /\ row'[v] = row[v] /\ dir'[v] = dir[v] /\ share'[v] = share[v]
          /\ disturbed'[v] = disturbed[v]
      BY DEF Touches
    <3>4. QED
      BY <3>1, <3>2, <3>3 DEF InOrder, Expected, Undone, Matched
  <2>5. QED
    BY <2>1, <2>2, <2>3, <2>4
<1>5. ASSUME NEW s \in Requests, NEW t \in Requests, s # t
      PROVE  Marked(requests[s], requests[t])'
  <2>1. Marked(requests[s], requests[t])
    BY <1>5 DEF ShareInv
  <2>2. CASE s = r \/ t = r
    BY <1>1, <1>2, <1>3, <1>5, <2>1, <2>2 DEF Marked, Touches
  <2>3. CASE s # r /\ t # r
    <3>1. requests'[s] = requests[s] /\ requests'[t] = requests[t]
      BY <1>1, <2>3
    <3>2. CASE requests[s] # Null /\ requests[s].user = u
      BY <1>3, <2>1, <2>3, <3>1, <3>2 DEF Marked
    <3>3. CASE requests[s] # Null /\ requests[s].user # u
      <4>1. PICK v \in Users \ {u} : v = requests[s].user
        BY <1>1, <3>3 DEF Request
      <4>2. disturbed'[v] = disturbed[v]
        BY DEF Touches
      <4>3. QED
        BY <2>1, <3>1, <4>1, <4>2 DEF Marked
    <3>4. QED
      BY <3>1, <3>2, <3>3 DEF Marked
  <2>4. QED
    BY <2>2, <2>3
<1>6. ASSUME NEW v \in Users, Quiet(v)', ~disturbed'[v]
      PROVE  Matched(v)'
  <2>1. CASE v = u
    <3>1. requests'[r] = Null
      BY <1>2, <1>6, <2>1 DEF Quiet, On, Touches
    <3>2. QED
      BY <1>6, <2>1, <3>1
  <2>2. CASE v # u
    <3>1. Quiet(v)
      <4>1. \A s \in Requests : s \in On(v, Provisioners) => s \in On(v, Provisioners)'
        BY <1>1, <2>2 DEF On, Touches
      <4>2. QED
        BY <1>6, <4>1 DEF Quiet, On
    <3>2. Matched(v)
      BY <1>6, <2>2, <3>1 DEF ShareInv, ProvisionedIffEnabled, Matched, Touches
    <3>3. QED
      BY <2>2, <3>2 DEF Matched, Touches
  <2>3. QED
    BY <2>1, <2>2
<1>7. ProvisionedIffEnabled'
  BY <1>6 DEF ProvisionedIffEnabled, Matched
<1>8. QED
  BY <1>4, <1>5, <1>7 DEF ShareInv

(* A password change has no part in this.                                  *)
LEMMA OtherStepFits ==
    ASSUME IInv, ShareInv, NEW r \in Requests, requests[r] # Null,
           requests[r].op \notin Provisioners,
           End(r) \/ \E s \in StepsOf[requests[r].op] : Goto(r, s),
           UNCHANGED <<row, dir, share, disturbed>>
    PROVE  ShareInv'
<1>1. requests' = [requests EXCEPT ![r] = requests'[r]]
      /\ (requests'[r] # Null => requests'[r].op \notin Provisioners)
  BY GoesOn, Ends
<1>2. \A s \in Requests \ {r} : requests'[s] = requests[s]
  BY <1>1 DEF IInv, TypeOK
<1>3. \A s \in Requests : InOrder(requests[s])'
  <2>1. InOrder(requests[r])'
    BY <1>1 DEF InOrder
  <2>2. ASSUME NEW s \in Requests \ {r}
        PROVE  InOrder(requests[s])'
    <3>1. InOrder(requests[s])
      BY DEF ShareInv
    <3>2. QED
      BY <1>2, <3>1 DEF InOrder, Expected, Undone, Matched
  <2>3. QED
    BY <2>1, <2>2
<1>4. \A s, t \in Requests : s # t => Marked(requests[s], requests[t])'
  BY <1>1, <1>2 DEF ShareInv, Marked
<1>5. ProvisionedIffEnabled'
  <2>1. ASSUME NEW v \in Users, Quiet(v)'
        PROVE  Quiet(v)
    BY <1>2, <2>1 DEF Quiet, On
  <2>2. QED
    BY <2>1 DEF ShareInv, ProvisionedIffEnabled
<1>6. QED
  BY <1>3, <1>4, <1>5 DEF ShareInv

\* A step of r on u ends with the user in order or marked, or goes on to where its
\* next step expects it.
Fits(r, u) ==
    \/ requests'[r] = Null /\ (disturbed'[u] \/ Matched(u)')
    \/ requests'[r] # Null /\ InOrder(requests[r])'

(* The steps that may mark the user but take no mark away.                 *)
LEMMA MarkingStepFits ==
    ASSUME IInv, ShareInv, NEW r \in Requests, NEW u \in Users,
           requests[r] # Null, requests[r].user = u, requests[r].op \in Provisioners,
           End(r) \/ \E s \in StepsOf[requests[r].op] : Goto(r, s),
           \E b \in BOOLEAN : Disturb(r, b),
           \A v \in Users \ {u} : row'[v] = row[v] /\ dir'[v] = dir[v] /\ share'[v] = share[v],
           Fits(r, u)
    PROVE  ShareInv'
<1>1. disturbed \in [Users -> BOOLEAN]
  BY DEF IInv, TypeOK
<1>2. PICK b \in BOOLEAN : disturbed' = [disturbed EXCEPT ![u] = disturbed[u] \/ b]
  BY DEF Disturb, User
<1>3. /\ disturbed'[u] = (disturbed[u] \/ b)
      /\ \A v \in Users \ {u} : disturbed'[v] = disturbed[v]
  BY <1>1, <1>2
<1>4. /\ requests' = [requests EXCEPT ![r] = requests'[r]]
      /\ Advanced(requests[r], requests'[r])
  BY GoesOn, Ends
<1>5. Touches(r, u)
  BY <1>3, <1>4 DEF Touches
<1>6. disturbed[u] => disturbed'[u]
  BY <1>3
<1>7. QED
  BY <1>1, <1>5, <1>6, StepFits DEF Fits

(* A step that leaves the marks alone marks nothing.                       *)
LEMMA NoMark ==
    ASSUME IInv, NEW r \in Requests, requests[r] # Null, UNCHANGED disturbed
    PROVE  \E b \in BOOLEAN : Disturb(r, b)
<1>1. requests[r].user \in Users
  BY StepTypes
<1>2. disturbed' = [disturbed EXCEPT ![requests[r].user] = @ \/ FALSE]
  BY <1>1 DEF IInv, TypeOK
<1>3. QED
  BY <1>2 DEF Disturb, User

LEMMA InsertFits ==
    ASSUME IInv, ShareInv, NEW r \in Requests, InsertRow(r)
    PROVE  ShareInv'
<1> DEFINE q == requests[r]
<1>1. q # Null /\ q.op = "create" /\ q.step = "insert" /\ q.op \in Provisioners
  BY StepTypes DEF InsertRow, At, Provisioners
<1>2. PICK u \in Users : u = q.user
  BY <1>1, StepTypes
<1>3. /\ row[u] = "none" /\ UNCHANGED <<dir, share, disturbed>>
      /\ row' = [row EXCEPT ![u] = IF q.smb THEN "on" ELSE "off"]
      /\ IF q.smb THEN Goto(r, "mkdir") ELSE End(r)
  BY <1>2 DEF InsertRow, User
<1>4. /\ row'[u] = IF q.smb THEN "on" ELSE "off"
      /\ \A v \in Users \ {u} : row'[v] = row[v]
  BY <1>3 DEF IInv, TypeOK
<1>5. disturbed[u] \/ (~dir[u] /\ ~share[u])
  BY <1>1, <1>2, <1>3, Before DEF Expected, Matched
<1>6. "mkdir" \in StepsOf[q.op]
  BY <1>1 DEF StepsOf
<1>7. Fits(r, u)
  <2>1. CASE q.smb
    <3>1. /\ requests'[r] # Null /\ requests'[r].user = u /\ requests'[r].op = "create"
          /\ requests'[r].step = "mkdir"
      BY <1>1, <1>2, <1>3, <1>6, <2>1, GoesOn
    <3>2. QED
      BY <1>3, <1>4, <1>5, <2>1, <3>1 DEF Fits, InOrder, Expected, Undone
  <2>2. CASE ~q.smb
    <3>1. requests'[r] = Null /\ row'[u] = "off"
      BY <1>1, <1>3, <1>4, <2>2, Ends
    <3>2. dir[u] \in BOOLEAN /\ share[u] \in BOOLEAN
      BY DEF IInv, TypeOK
    <3>3. QED
      BY <1>3, <1>5, <3>1, <3>2 DEF Fits, Matched
  <2>3. QED
    BY <2>1, <2>2
<1>8. QED
  BY <1>1, <1>2, <1>3, <1>4, <1>6, <1>7, NoMark, MarkingStepFits

(* A handler that gives up before it did anything leaves the user in       *)
(* order; after that it marks the user.                                    *)
LEMMA FailureFits ==
    ASSUME IInv, ShareInv, NEW r \in Requests,
           InsertFails(r) \/ SetFlagFails(r) \/ RemoveRowFails(r)
    PROVE  ShareInv'
<1> DEFINE q == requests[r]
<1>1. /\ q # Null /\ q.op \in Provisioners
      /\ q.step = "insert" => q.op = "create"
      /\ q.step = "remove_row_only" => q.op = "delete"
  BY StepTypes DEF InsertFails, SetFlagFails, RemoveRowFails, At, Provisioners
<1>2. PICK u \in Users : u = q.user
  BY <1>1, StepTypes
<1>3. UNCHANGED <<row, dir, share>> /\ End(r)
  BY DEF InsertFails, SetFlagFails, RemoveRowFails, BreakOff
<1>4. requests'[r] = Null
  BY <1>1, <1>3, Ends
<1>5. \E b \in BOOLEAN : Disturb(r, b) /\ (b \/ q.step \in {"insert", "remove_row_only"})
  <2>1. CASE InsertFails(r)
    BY <2>1 DEF InsertFails, BreakOff, At
  <2>2. CASE SetFlagFails(r)
    BY <2>2 DEF SetFlagFails, BreakOff
  <2>3. CASE RemoveRowFails(r)
    <3>1. At(r, "remove") \in BOOLEAN
      BY DEF At
    <3>2. QED
      BY <2>3, <3>1 DEF RemoveRowFails, BreakOff, At
  <2>4. QED
    BY <2>1, <2>2, <2>3
<1>6. PICK b \in BOOLEAN : Disturb(r, b) /\ (b \/ q.step \in {"insert", "remove_row_only"})
  BY <1>5
<1>7. disturbed'[u] = (disturbed[u] \/ b)
  BY <1>2, <1>6 DEF Disturb, User, IInv, TypeOK
<1>8. Fits(r, u)
  <2>1. CASE disturbed[u] \/ b
    BY <1>4, <1>7, <2>1 DEF Fits
  <2>2. CASE ~disturbed[u] /\ ~b
    <3>1. Matched(u)
      BY <1>1, <1>2, <1>6, <2>2, Before DEF Expected
    <3>2. QED
      BY <1>3, <1>4, <3>1 DEF Fits, Matched
  <2>3. QED
    BY <2>1, <2>2
<1>9. QED
  BY <1>1, <1>2, <1>3, <1>6, <1>8, MarkingStepFits

LEMMA ReadFits ==
    ASSUME IInv, ShareInv, NEW r \in Requests, ReadRow(r)
    PROVE  ShareInv'
<1> DEFINE q == requests[r]
<1>1. q # Null /\ q.step = "get" /\ q.op \in {"delete", "webdav", "password"}
  BY StepTypes DEF ReadRow, At
<1>2. PICK u \in Users : u = q.user
  BY <1>1, StepTypes
<1>3. UNCHANGED <<row, dir, share, disturbed>>
  BY DEF ReadRow
<1>4. CASE q.op = "password"
  <2>1. "account" \in StepsOf[q.op] /\ q.op \notin Provisioners
    BY <1>4 DEF StepsOf, Provisioners
  <2>2. End(r) \/ Goto(r, "account")
    BY <1>4 DEF ReadRow, Op
  <2>3. QED
    BY <1>1, <1>3, <2>1, <2>2, OtherStepFits
<1>5. CASE q.op = "delete"
  <2>1. q.op \in Provisioners /\ {"share", "remove_row_only"} \subseteq StepsOf[q.op]
    BY <1>5 DEF StepsOf, Provisioners
  <2>2. PICK s \in {"share", "remove_row_only"} :
           Goto(r, s) /\ s = IF row[u] = "on" THEN "share" ELSE "remove_row_only"
    BY <1>2, <1>5 DEF ReadRow, Op, User
  <2>3. /\ requests'[r] # Null /\ requests'[r].user = u /\ requests'[r].op = "delete"
        /\ requests'[r].step = s
    BY <1>1, <1>2, <1>5, <2>1, <2>2, GoesOn
  <2>4. disturbed[u] \/ Matched(u)
    BY <1>1, <1>2, <1>5, <2>1, Before DEF Expected
  <2>5. Matched(u) => Matched(u)'
    BY <1>3 DEF Matched
  <2>6. Fits(r, u)
    BY <1>3, <2>2, <2>3, <2>4, <2>5 DEF Fits, InOrder, Expected, Undone
  <2>7. QED
    BY <1>1, <1>2, <1>3, <2>1, <2>2, <2>6, NoMark, MarkingStepFits
<1>6. CASE q.op = "webdav"
  <2>1. q.op \in Provisioners /\ "mkdir" \in StepsOf[q.op]
    BY <1>6 DEF StepsOf, Provisioners
  <2>2. disturbed[u] \/ Matched(u)
    BY <1>1, <1>2, <1>6, <2>1, Before DEF Expected
  <2>3. Matched(u) => Matched(u)'
    BY <1>3 DEF Matched
  <2>4. CASE row[u] = "on"
    <3>1. Goto(r, "mkdir")
      BY <1>2, <1>6, <2>4 DEF ReadRow, Op, User
    <3>2. /\ requests'[r] # Null /\ requests'[r].user = u /\ requests'[r].op = "webdav"
          /\ requests'[r].step = "mkdir"
      BY <1>1, <1>2, <1>6, <2>1, <3>1, GoesOn
    <3>3. Fits(r, u)
      BY <1>3, <2>2, <2>3, <2>4, <3>2 DEF Fits, InOrder, Expected, Undone
    <3>4. QED
      BY <1>1, <1>2, <1>3, <2>1, <3>1, <3>3, NoMark, MarkingStepFits
  <2>5. CASE row[u] # "on"
    <3>1. End(r)
      BY <1>2, <1>6, <2>5 DEF ReadRow, Op, User
    <3>2. Fits(r, u)
      BY <1>1, <1>3, <2>2, <2>3, <3>1, Ends DEF Fits
    <3>3. QED
      BY <1>1, <1>2, <1>3, <2>1, <3>1, <3>2, NoMark, MarkingStepFits
  <2>6. QED
    BY <2>4, <2>5
<1>7. QED
  BY <1>1, <1>4, <1>5, <1>6

(* The user stays as it is: a deletion goes on, a WebDAV request ends.      *)
LEMMA ReadFailureFits ==
    ASSUME IInv, ShareInv, NEW r \in Requests, ReadRowFails(r)
    PROVE  ShareInv'
<1> DEFINE q == requests[r]
<1>1. q # Null /\ q.step = "get" /\ q.op \in {"delete", "webdav", "password"}
  BY StepTypes DEF ReadRowFails, At
<1>2. PICK u \in Users : u = q.user
  BY <1>1, StepTypes
<1>3. UNCHANGED <<row, dir, share, disturbed>>
  BY DEF ReadRowFails
<1>4. CASE q.op = "password"
  <2>1. "account" \in StepsOf[q.op] /\ q.op \notin Provisioners
    BY <1>4 DEF StepsOf, Provisioners
  <2>2. End(r)
    BY <1>4 DEF ReadRowFails, Op
  <2>3. QED
    BY <1>1, <1>3, <2>1, <2>2, OtherStepFits
<1>5. CASE q.op \in {"delete", "webdav"}
  <2>1. q.op \in Provisioners
    BY <1>5 DEF Provisioners
  <2>2. disturbed[u] \/ Matched(u)
    BY <1>1, <1>2, <1>5, <2>1, Before DEF Expected
  <2>3. Matched(u) => Matched(u)'
    BY <1>3 DEF Matched
  <2>4. CASE q.op = "delete"
    <3>1. Goto(r, "remove_row_only") /\ "remove_row_only" \in StepsOf[q.op]
      BY <2>4 DEF ReadRowFails, Op, StepsOf
    <3>2. /\ requests'[r] # Null /\ requests'[r].user = u /\ requests'[r].op = "delete"
          /\ requests'[r].step = "remove_row_only"
      BY <1>1, <1>2, <2>4, <3>1, GoesOn
    <3>3. Fits(r, u)
      BY <1>3, <2>2, <2>3, <3>2 DEF Fits, InOrder, Expected, Undone
    <3>4. QED
      BY <1>1, <1>2, <1>3, <2>1, <3>1, <3>3, NoMark, MarkingStepFits
  <2>5. CASE q.op = "webdav"
    <3>1. End(r)
      BY <2>5 DEF ReadRowFails, Op
    <3>2. Fits(r, u)
      BY <1>1, <1>3, <2>2, <2>3, <3>1, Ends DEF Fits
    <3>3. QED
      BY <1>1, <1>2, <1>3, <2>1, <3>1, <3>2, NoMark, MarkingStepFits
  <2>6. QED
    BY <1>5, <2>4, <2>5
<1>6. QED
  BY <1>1, <1>4, <1>5

LEMMA MakeDirFits ==
    ASSUME IInv, ShareInv, NEW r \in Requests, MakeDir(r)
    PROVE  ShareInv'
<1> DEFINE q == requests[r]
<1>1. q # Null /\ q.step = "mkdir" /\ q.op \in {"create", "enable", "webdav"}
      /\ q.op \in Provisioners
  BY StepTypes DEF MakeDir, At, Provisioners
<1>2. PICK u \in Users : u = q.user
  BY <1>1, StepTypes
<1>3. /\ UNCHANGED <<row, share, disturbed>> /\ dir'[u] = TRUE
      /\ \A v \in Users \ {u} : dir'[v] = dir[v]
  BY <1>2 DEF MakeDir, User, IInv, TypeOK
<1>4. disturbed[u] \/ Expected(q)
  BY <1>1, <1>2, Before
<1>5. share[u] \in BOOLEAN /\ dir[u] \in BOOLEAN
  BY DEF IInv, TypeOK
<1>6. CASE q.op = "create"
  <2>1. Goto(r, "account") /\ "account" \in StepsOf[q.op]
    BY <1>6 DEF MakeDir, Op, StepsOf
  <2>2. /\ requests'[r] # Null /\ requests'[r].user = u /\ requests'[r].op = "create"
        /\ requests'[r].step = "account"
    BY <1>1, <1>2, <1>6, <2>1, GoesOn
  <2>3. disturbed[u] \/ (row[u] = "on" /\ ~share[u])
    BY <1>1, <1>2, <1>4, <1>6 DEF Expected
  <2>4. Fits(r, u)
    BY <1>3, <2>2, <2>3 DEF Fits, InOrder, Expected, Undone
  <2>5. QED
    BY <1>1, <1>2, <1>3, <2>1, <2>4, NoMark, MarkingStepFits
<1>7. CASE q.op = "enable"
  <2>1. Goto(r, "share") /\ "share" \in StepsOf[q.op]
    BY <1>7 DEF MakeDir, Op, StepsOf
  <2>2. /\ requests'[r] # Null /\ requests'[r].user = u /\ requests'[r].op = "enable"
        /\ requests'[r].step = "share"
    BY <1>1, <1>2, <1>7, <2>1, GoesOn
  <2>3. disturbed[u] \/ share[u] = (row[u] = "on")
    BY <1>1, <1>2, <1>4, <1>7 DEF Expected, Matched
  <2>4. Fits(r, u)
    BY <1>3, <2>2, <2>3 DEF Fits, InOrder, Expected, Undone
  <2>5. QED
    BY <1>1, <1>2, <1>3, <2>1, <2>4, NoMark, MarkingStepFits
<1>8. CASE q.op = "webdav"
  <2>1. End(r)
    BY <1>8 DEF MakeDir, Op
  <2>2. disturbed[u] \/ (row[u] = "on" /\ share[u])
    BY <1>1, <1>2, <1>4, <1>5, <1>8 DEF Expected, Matched
  <2>3. disturbed'[u] \/ Matched(u)'
    BY <1>3, <1>5, <2>2 DEF Matched
  <2>4. Fits(r, u)
    BY <1>1, <2>1, <2>3, Ends DEF Fits
  <2>5. QED
    BY <1>1, <1>2, <1>3, <2>1, <2>4, NoMark, MarkingStepFits
<1>9. QED
  BY <1>1, <1>6, <1>7, <1>8

LEMMA MakeDirFailsFits ==
    ASSUME IInv, ShareInv, NEW r \in Requests, NEW made \in BOOLEAN, MakeDirFails(r, made)
    PROVE  ShareInv'
<1> DEFINE q == requests[r]
<1>1. q # Null /\ q.step = "mkdir" /\ q.op \in {"create", "enable", "webdav"}
      /\ q.op \in Provisioners
  BY StepTypes DEF MakeDirFails, At, Provisioners
<1>2. PICK u \in Users : u = q.user
  BY <1>1, StepTypes
<1>3. /\ UNCHANGED <<row, share>> /\ dir'[u] = (dir[u] \/ made)
      /\ \A v \in Users \ {u} : dir'[v] = dir[v]
  BY <1>2 DEF MakeDirFails, User, IInv, TypeOK
<1>4. Disturb(r, made)
  BY DEF MakeDirFails, BreakOff
<1>5. disturbed'[u] = (disturbed[u] \/ made)
  BY <1>2, <1>4 DEF Disturb, User, IInv, TypeOK
<1>6. disturbed[u] \/ Expected(q)
  BY <1>1, <1>2, Before
<1>7. share[u] \in BOOLEAN /\ dir[u] \in BOOLEAN
  BY DEF IInv, TypeOK
<1>8. CASE q.op = "create"
  <2>1. Goto(r, "undo_row") /\ "undo_row" \in StepsOf[q.op]
    BY <1>8 DEF MakeDirFails, Op, StepsOf
  <2>2. /\ requests'[r] # Null /\ requests'[r].user = u /\ requests'[r].op = "create"
        /\ requests'[r].step = "undo_row"
    BY <1>1, <1>2, <1>8, <2>1, GoesOn
  <2>3. disturbed[u] \/ (row[u] = "on" /\ ~share[u] /\ ~dir[u])
    BY <1>1, <1>2, <1>6, <1>8 DEF Expected
  <2>4. Fits(r, u)
    BY <1>3, <1>5, <2>2, <2>3 DEF Fits, InOrder, Expected, Undone
  <2>5. QED
    BY <1>1, <1>2, <1>3, <1>4, <2>1, <2>4, MarkingStepFits
<1>9. CASE q.op # "create"
  <2>1. End(r)
    BY <1>9 DEF MakeDirFails, BreakOff, Op
  <2>2. disturbed[u] \/ Matched(u)
    BY <1>1, <1>2, <1>6, <1>9 DEF Expected
  <2>3. disturbed'[u] \/ Matched(u)'
    BY <1>3, <1>5, <1>7, <2>2 DEF Matched
  <2>4. Fits(r, u)
    BY <1>1, <2>1, <2>3, Ends DEF Fits
  <2>5. QED
    BY <1>1, <1>2, <1>3, <1>4, <2>1, <2>4, MarkingStepFits
<1>10. QED
  BY <1>8, <1>9

LEMMA SyncFits ==
    ASSUME IInv, ShareInv, NEW r \in Requests, NEW ok \in BOOLEAN, NEW done \in BOOLEAN,
           SyncAccount(r, ok, done)
    PROVE  ShareInv'
<1> DEFINE q == requests[r]
<1>1. q # Null /\ q.step = "account" /\ q.op \in {"create", "password"}
  BY StepTypes DEF SyncAccount, At
<1>2. PICK u \in Users : u = q.user
  BY <1>1, StepTypes
<1>3. UNCHANGED <<row, dir, share, disturbed>>
  BY DEF SyncAccount
<1>4. CASE q.op = "password"
  <2>1. End(r) /\ q.op \notin Provisioners
    BY <1>4 DEF SyncAccount, Op, Provisioners
  <2>2. QED
    BY <1>1, <1>3, <2>1, OtherStepFits
<1>5. CASE q.op = "create"
  <2>1. q.op \in Provisioners /\ {"share", "undo_row_and_dir"} \subseteq StepsOf[q.op]
    BY <1>5 DEF StepsOf, Provisioners
  <2>2. PICK s \in {"share", "undo_row_and_dir"} : Goto(r, s)
    BY <1>5 DEF SyncAccount, Op
  <2>3. /\ requests'[r] # Null /\ requests'[r].user = u /\ requests'[r].op = "create"
        /\ requests'[r].step = s
    BY <1>1, <1>2, <1>5, <2>1, <2>2, GoesOn
  <2>4. disturbed[u] \/ (row[u] = "on" /\ dir[u] /\ ~share[u])
    BY <1>1, <1>2, <1>5, <2>1, Before DEF Expected
  <2>5. Fits(r, u)
    BY <1>3, <2>2, <2>3, <2>4 DEF Fits, InOrder, Expected, Undone
  <2>6. QED
    BY <1>1, <1>2, <1>3, <2>1, <2>2, <2>5, NoMark, MarkingStepFits
<1>6. QED
  BY <1>1, <1>4, <1>5

LEMMA PasswordStepsFit ==
    ASSUME IInv, ShareInv, NEW r \in Requests, UpdatePassword(r) \/ UpdateFails(r)
    PROVE  ShareInv'
<1>1. /\ requests[r] # Null /\ requests[r].op = "password"
      /\ UNCHANGED <<row, dir, share, disturbed>>
  BY StepTypes DEF UpdatePassword, UpdateFails, At
<1>2. "password" \notin Provisioners /\ "get" \in StepsOf[requests[r].op]
  BY <1>1 DEF Provisioners, StepsOf
<1>3. End(r) \/ Goto(r, "get")
  BY DEF UpdatePassword, UpdateFails
<1>4. QED
  BY <1>1, <1>2, <1>3, OtherStepFits

LEMMA ApplyShareFits ==
    ASSUME IInv, ShareInv, NEW r \in Requests, ApplyShare(r)
    PROVE  ShareInv'
<1> DEFINE q == requests[r]
<1>1. q # Null /\ q.step = "share" /\ q.op \in {"create", "enable", "disable", "delete"}
      /\ q.op \in Provisioners
  BY StepTypes DEF ApplyShare, At, Provisioners
<1>2. PICK u \in Users : u = q.user
  BY <1>1, StepTypes
<1>3. /\ UNCHANGED <<row, dir, disturbed>>
      /\ share'[u] = (q.op \in {"create", "enable"})
      /\ \A v \in Users \ {u} : share'[v] = share[v]
  BY <1>2 DEF ApplyShare, User, Op, IInv, TypeOK
<1>4. disturbed[u] \/ Expected(q)
  BY <1>1, <1>2, Before
<1>5. dir[u] \in BOOLEAN
  BY DEF IInv, TypeOK
<1>6. CASE q.op = "create"
  <2>1. End(r)
    BY <1>6 DEF ApplyShare, Op
  <2>2. disturbed[u] \/ (row[u] = "on" /\ dir[u])
    BY <1>1, <1>2, <1>4, <1>6 DEF Expected
  <2>3. disturbed'[u] \/ Matched(u)'
    BY <1>3, <1>5, <1>6, <2>2 DEF Matched
  <2>4. Fits(r, u)
    BY <1>1, <2>1, <2>3, Ends DEF Fits
  <2>5. QED
    BY <1>1, <1>2, <1>3, <2>1, <2>4, NoMark, MarkingStepFits
<1>7. CASE q.op = "enable"
  <2>1. Goto(r, "flag") /\ "flag" \in StepsOf[q.op]
    BY <1>7 DEF ApplyShare, Op, StepsOf
  <2>2. /\ requests'[r] # Null /\ requests'[r].user = u /\ requests'[r].op = "enable"
        /\ requests'[r].step = "flag"
    BY <1>1, <1>2, <1>7, <2>1, GoesOn
  <2>3. disturbed[u] \/ dir[u]
    BY <1>1, <1>2, <1>4, <1>7 DEF Expected
  <2>4. share'[u]
    BY <1>3, <1>7
  <2>5. Fits(r, u)
    BY <1>3, <2>2, <2>3, <2>4 DEF Fits, InOrder, Expected, Undone
  <2>6. QED
    BY <1>1, <1>2, <1>3, <2>1, <2>5, NoMark, MarkingStepFits
<1>8. CASE q.op \in {"disable", "delete"}
  <2>0. "rmdir" \in StepsOf[q.op]
    BY <1>8 DEF StepsOf
  <2>1. Goto(r, "rmdir") /\ "rmdir" \in StepsOf[q.op]
    BY <1>8, <2>0 DEF ApplyShare, Op
  <2>2. /\ requests'[r] # Null /\ requests'[r].user = u /\ requests'[r].op \in {"disable", "delete"}
        /\ requests'[r].step = "rmdir"
    BY <1>1, <1>2, <1>8, <2>1, GoesOn
  <2>3. ~share'[u]
    BY <1>3, <1>8
  <2>4. Fits(r, u)
    BY <2>2, <2>3 DEF Fits, InOrder, Expected, Undone
  <2>5. QED
    BY <1>1, <1>2, <1>3, <2>1, <2>4, NoMark, MarkingStepFits
<1>9. QED
  BY <1>1, <1>6, <1>7, <1>8

LEMMA ShareFailsFits ==
    ASSUME IInv, ShareInv, NEW r \in Requests, NEW done \in BOOLEAN, ShareFails(r, done)
    PROVE  ShareInv'
<1> DEFINE q == requests[r]
<1>1. q # Null /\ q.step = "share" /\ q.op \in {"create", "enable", "disable", "delete"}
      /\ q.op \in Provisioners
  BY StepTypes DEF ShareFails, At, Provisioners
<1>2. PICK u \in Users : u = q.user
  BY <1>1, StepTypes
<1>3. /\ UNCHANGED <<row, dir>> /\ (~done => share'[u] = share[u])
      /\ \A v \in Users \ {u} : share'[v] = share[v]
  BY <1>2 DEF ShareFails, User, IInv, TypeOK
<1>4. PICK b \in BOOLEAN : Disturb(r, b) /\ b = (done \/ q.op = "enable")
  <2>1. (done \/ q.op = "enable") \in BOOLEAN
    OBVIOUS
  <2>2. CASE q.op = "create"
    BY <2>2 DEF ShareFails, Op
  <2>3. CASE q.op # "create"
    BY <2>1, <2>3 DEF ShareFails, BreakOff, Op
  <2>4. QED
    BY <2>2, <2>3
<1>5. disturbed'[u] = (disturbed[u] \/ b)
  BY <1>2, <1>4 DEF Disturb, User, IInv, TypeOK
<1>6. disturbed[u] \/ Expected(q)
  BY <1>1, <1>2, Before
<1>7. CASE q.op = "create"
  <2>1. Goto(r, "undo_row_and_dir") /\ "undo_row_and_dir" \in StepsOf[q.op]
    BY <1>7 DEF ShareFails, Op, StepsOf
  <2>2. /\ requests'[r] # Null /\ requests'[r].user = u /\ requests'[r].op = "create"
        /\ requests'[r].step = "undo_row_and_dir"
    BY <1>1, <1>2, <1>7, <2>1, GoesOn
  <2>3. disturbed[u] \/ (row[u] = "on" /\ dir[u] /\ ~share[u])
    BY <1>1, <1>2, <1>6, <1>7 DEF Expected
  <2>4. Fits(r, u)
    BY <1>3, <1>4, <1>5, <2>2, <2>3 DEF Fits, InOrder, Expected, Undone
  <2>5. QED
    BY <1>1, <1>2, <1>3, <1>4, <2>1, <2>4, MarkingStepFits
<1>8. CASE q.op # "create"
  <2>1. End(r)
    BY <1>8 DEF ShareFails, BreakOff, Op
  <2>2. disturbed[u] \/ b \/ (Matched(u) /\ ~done)
    BY <1>1, <1>2, <1>4, <1>6, <1>8 DEF Expected
  <2>3. disturbed'[u] \/ Matched(u)'
    BY <1>3, <1>5, <2>2 DEF Matched
  <2>4. Fits(r, u)
    BY <1>1, <2>1, <2>3, Ends DEF Fits
  <2>5. QED
    BY <1>1, <1>2, <1>3, <1>4, <2>1, <2>4, MarkingStepFits
<1>9. QED
  BY <1>7, <1>8

LEMMA RemoveDirFits ==
    ASSUME IInv, ShareInv, NEW r \in Requests, NEW ok \in BOOLEAN, RemoveDir(r, ok)
    PROVE  ShareInv'
<1> DEFINE q == requests[r]
<1>1. q # Null /\ q.step = "rmdir" /\ q.op \in {"disable", "delete"} /\ q.op \in Provisioners
  BY StepTypes DEF RemoveDir, At, Provisioners
<1>2. PICK u \in Users : u = q.user
  BY <1>1, StepTypes
<1>3. /\ UNCHANGED <<row, share>> /\ (ok => ~dir'[u])
      /\ \A v \in Users \ {u} : dir'[v] = dir[v]
  BY <1>2 DEF RemoveDir, User, IInv, TypeOK
<1>4. CASE ok
  <2>1. UNCHANGED disturbed
    BY <1>4 DEF RemoveDir
  <2>2. PICK s \in {"flag", "remove"} :
           Goto(r, s) /\ s \in StepsOf[q.op] /\ s = IF q.op = "disable" THEN "flag" ELSE "remove"
    BY <1>1, <1>4 DEF RemoveDir, Op, StepsOf
  <2>3. /\ requests'[r] # Null /\ requests'[r].user = u /\ requests'[r].op = q.op
        /\ requests'[r].step = s /\ requests'[r].alone = q.alone
    BY <1>1, <1>2, <2>2, GoesOn
  <2>4. (~disturbed[u] \/ q.alone) => ~share[u]
    BY <1>1, <1>2, Before DEF Undone
  <2>5. Fits(r, u)
    BY <1>1, <1>3, <1>4, <2>1, <2>2, <2>3, <2>4 DEF Fits, InOrder, Expected, Undone
  <2>6. QED
    BY <1>1, <1>2, <1>3, <2>1, <2>2, <2>5, NoMark, MarkingStepFits
<1>5. CASE ~ok
  <2>1. End(r) /\ Disturb(r, TRUE)
    BY <1>5 DEF RemoveDir, BreakOff
  <2>2. disturbed'[u]
    BY <1>2, <2>1 DEF Disturb, User, IInv, TypeOK
  <2>3. Fits(r, u)
    BY <1>1, <2>1, <2>2, Ends DEF Fits
  <2>4. QED
    BY <1>1, <1>2, <1>3, <2>1, <2>3, MarkingStepFits
<1>6. QED
  BY <1>4, <1>5

LEMMA UndoRowFits ==
    ASSUME IInv, ShareInv, NEW r \in Requests, NEW ok \in BOOLEAN, UndoRow(r, ok)
    PROVE  ShareInv'
<1> DEFINE q == requests[r]
<1>1. q # Null /\ q.step \in {"undo_row", "undo_row_and_dir"} /\ q.op = "create"
      /\ q.op \in Provisioners
  BY StepTypes DEF UndoRow, At, Provisioners
<1>2. PICK u \in Users : u = q.user
  BY <1>1, StepTypes
<1>3. /\ UNCHANGED <<dir, share>> /\ (ok => row'[u] = "none")
      /\ \A v \in Users \ {u} : row'[v] = row[v]
  BY <1>2 DEF UndoRow, User, IInv, TypeOK
<1>4. PICK b \in BOOLEAN : Disturb(r, b) /\ b = ~ok
  BY DEF UndoRow
<1>5. disturbed'[u] = (disturbed[u] \/ b)
  BY <1>2, <1>4 DEF Disturb, User, IInv, TypeOK
<1>6. disturbed[u] \/ Expected(q)
  BY <1>1, <1>2, Before
<1>7. share[u] \in BOOLEAN /\ dir[u] \in BOOLEAN
  BY DEF IInv, TypeOK
<1>8. CASE q.step = "undo_row"
  <2>1. End(r)
    BY <1>1, <1>8 DEF UndoRow, At
  <2>2. disturbed[u] \/ (~dir[u] /\ ~share[u])
    BY <1>1, <1>2, <1>6, <1>8 DEF Expected
  <2>3. disturbed'[u] \/ Matched(u)'
    BY <1>3, <1>4, <1>5, <1>7, <2>2 DEF Matched
  <2>4. Fits(r, u)
    BY <1>1, <2>1, <2>3, Ends DEF Fits
  <2>5. QED
    BY <1>1, <1>2, <1>3, <1>4, <2>1, <2>4, MarkingStepFits
<1>9. CASE q.step = "undo_row_and_dir"
  <2>1. Goto(r, "undo_dir") /\ "undo_dir" \in StepsOf[q.op]
    BY <1>1, <1>9 DEF UndoRow, At, StepsOf
  <2>2. /\ requests'[r] # Null /\ requests'[r].user = u /\ requests'[r].op = "create"
        /\ requests'[r].step = "undo_dir"
    BY <1>1, <1>2, <2>1, GoesOn
  <2>3. disturbed[u] \/ (dir[u] /\ ~share[u])
    BY <1>1, <1>2, <1>6, <1>9 DEF Expected
  <2>4. Fits(r, u)
    BY <1>3, <1>4, <1>5, <2>2, <2>3 DEF Fits, InOrder, Expected, Undone
  <2>5. QED
    BY <1>1, <1>2, <1>3, <1>4, <2>1, <2>4, MarkingStepFits
<1>10. QED
  BY <1>1, <1>8, <1>9

LEMMA UndoDirFits ==
    ASSUME IInv, ShareInv, NEW r \in Requests, NEW ok \in BOOLEAN, UndoDir(r, ok)
    PROVE  ShareInv'
<1> DEFINE q == requests[r]
<1>1. q # Null /\ q.step = "undo_dir" /\ q.op = "create" /\ q.op \in Provisioners
  BY StepTypes DEF UndoDir, At, Provisioners
<1>2. PICK u \in Users : u = q.user
  BY <1>1, StepTypes
<1>3. /\ UNCHANGED <<row, share>> /\ (ok => dir'[u] = FALSE) /\ End(r)
      /\ \A v \in Users \ {u} : dir'[v] = dir[v]
  BY <1>2 DEF UndoDir, BreakOff, User, IInv, TypeOK
<1>4. PICK b \in BOOLEAN : Disturb(r, b) /\ b = ~ok
  BY DEF UndoDir, BreakOff
<1>5. disturbed'[u] = (disturbed[u] \/ b)
  BY <1>2, <1>4 DEF Disturb, User, IInv, TypeOK
<1>6. disturbed[u] \/ (row[u] # "on" /\ ~share[u])
  BY <1>1, <1>2, Before DEF Expected
<1>7. share[u] \in BOOLEAN
  BY DEF IInv, TypeOK
<1>8. disturbed'[u] \/ Matched(u)'
  BY <1>3, <1>4, <1>5, <1>6, <1>7 DEF Matched
<1>9. Fits(r, u)
  BY <1>1, <1>3, <1>8, Ends DEF Fits
<1>10. QED
  BY <1>1, <1>2, <1>3, <1>4, <1>9, MarkingStepFits

(* A disable or deletion that was alone takes the mark away: it has undone *)
(* whatever there was.                                                     *)
LEMMA SettlingStepFits ==
    ASSUME IInv, ShareInv, NEW r \in Requests, NEW u \in Users,
           requests[r] # Null, requests[r].user = u, requests[r].op \in Provisioners, End(r),
           disturbed' = Settled(r), ~disturbed[u] \/ requests[r].alone => Matched(u)',
           UNCHANGED <<dir, share>>,
           \A v \in Users \ {u} : row'[v] = row[v]
    PROVE  ShareInv'
<1>1. /\ disturbed \in [Users -> BOOLEAN] /\ requests[r].alone \in BOOLEAN
      /\ disturbed[u] \in BOOLEAN
  BY Before DEF IInv, TypeOK
<1>2. /\ \A v \in Users \ {u} : disturbed'[v] = disturbed[v]
      /\ disturbed'[u] = (disturbed[u] /\ ~requests[r].alone)
  BY <1>1 DEF Settled, User
<1>3. requests' = [requests EXCEPT ![r] = requests'[r]]
      /\ Advanced(requests[r], requests'[r]) /\ requests'[r] = Null
  BY Ends
<1>4. Touches(r, u)
  BY <1>2, <1>3 DEF Touches
<1>5. disturbed[u] /\ ~disturbed'[u] => requests[r].alone
  BY <1>1, <1>2
<1>6. ~disturbed'[u] => Matched(u)'
  BY <1>1, <1>2
<1>7. QED
  BY <1>1, <1>3, <1>4, <1>5, <1>6, StepFits

LEMMA FlagFits ==
    ASSUME IInv, ShareInv, NEW r \in Requests, SetFlag(r)
    PROVE  ShareInv'
<1> DEFINE q == requests[r]
<1>1. q # Null /\ q.step = "flag" /\ q.op \in {"enable", "disable"} /\ q.op \in Provisioners
  BY StepTypes DEF SetFlag, At, Provisioners
<1>2. PICK u \in Users : u = q.user
  BY <1>1, StepTypes
<1>3. /\ UNCHANGED <<dir, share>> /\ End(r)
      /\ row'[u] = (IF q.op = "enable" THEN "on" ELSE "off")
      /\ \A v \in Users \ {u} : row'[v] = row[v]
      /\ disturbed' = IF q.op = "disable" THEN Settled(r) ELSE disturbed
  BY <1>2 DEF SetFlag, User, Op, IInv, TypeOK
<1>4. share[u] \in BOOLEAN /\ dir[u] \in BOOLEAN
  BY DEF IInv, TypeOK
<1>5. CASE q.op = "enable"
  <2>1. ~disturbed[u] => dir[u] /\ share[u]
    BY <1>1, <1>2, <1>5, Before DEF Expected
  <2>2. ~disturbed[u] => Matched(u)'
    BY <1>3, <1>4, <1>5, <2>1 DEF Matched
  <2>3. Fits(r, u)
    BY <1>1, <1>3, <1>5, <2>2, Ends DEF Fits
  <2>4. QED
    BY <1>1, <1>2, <1>3, <1>5, <2>3, NoMark, MarkingStepFits
<1>6. CASE q.op = "disable"
  <2>1. ~disturbed[u] \/ q.alone => ~dir[u] /\ ~share[u]
    BY <1>1, <1>2, <1>6, Before DEF Expected, Undone
  <2>2. ~disturbed[u] \/ q.alone => Matched(u)'
    BY <1>3, <1>4, <1>6, <2>1 DEF Matched
  <2>3. QED
    BY <1>1, <1>2, <1>3, <1>6, <2>2, SettlingStepFits
<1>7. QED
  BY <1>1, <1>5, <1>6

LEMMA RemoveRowFits ==
    ASSUME IInv, ShareInv, NEW r \in Requests, RemoveRow(r)
    PROVE  ShareInv'
<1> DEFINE q == requests[r]
<1>1. q # Null /\ q.step \in {"remove", "remove_row_only"} /\ q.op = "delete"
      /\ q.op \in Provisioners
  BY StepTypes DEF RemoveRow, At, Provisioners
<1>2. PICK u \in Users : u = q.user
  BY <1>1, StepTypes
<1>3. /\ UNCHANGED <<dir, share>> /\ End(r) /\ row'[u] = "none"
      /\ \A v \in Users \ {u} : row'[v] = row[v]
      /\ IF q.step = "remove" THEN disturbed' = Settled(r) ELSE Disturb(r, row[u] = "on")
  BY <1>1, <1>2 DEF RemoveRow, User, At, IInv, TypeOK
<1>4. share[u] \in BOOLEAN /\ dir[u] \in BOOLEAN
  BY DEF IInv, TypeOK
<1>5. CASE q.step = "remove_row_only"
  <2>1. ~disturbed[u] => Matched(u)
    BY <1>1, <1>2, <1>5, Before DEF Expected
  <2>2. PICK b \in BOOLEAN : b = (row[u] = "on") /\ Disturb(r, b)
    BY <1>3, <1>5
  <2>3. disturbed'[u] = (disturbed[u] \/ b)
    BY <1>2, <2>2 DEF Disturb, User, IInv, TypeOK
  <2>4. ~disturbed'[u] => Matched(u)'
    BY <1>3, <1>4, <2>1, <2>2, <2>3 DEF Matched
  <2>5. Fits(r, u)
    BY <1>1, <1>3, <2>4, Ends DEF Fits
  <2>6. QED
    BY <1>1, <1>2, <1>3, <2>2, <2>5, MarkingStepFits
<1>6. CASE q.step = "remove"
  <2>1. ~disturbed[u] \/ q.alone => ~dir[u] /\ ~share[u]
    BY <1>1, <1>2, <1>6, Before DEF Expected, Undone
  <2>2. ~disturbed[u] \/ q.alone => Matched(u)'
    BY <1>3, <1>4, <2>1 DEF Matched
  <2>3. QED
    BY <1>1, <1>2, <1>3, <1>6, <2>2, SettlingStepFits
<1>7. QED
  BY <1>1, <1>5, <1>6

(* A request that begins on a user who is in order, with no other under    *)
(* way, finds the user in order; on any other user it knows nothing.       *)
LEMMA BeginFits ==
    ASSUME IInv, ShareInv, NEW r \in Requests, NEW op \in Ops, NEW u \in Users,
           NEW smb \in BOOLEAN, NEW s \in Secrets \cup {Null}, Begin(r, op, u, smb, s)
    PROVE  ShareInv'
<1>1. BegunAs(r, op, u) /\ UNCHANGED <<row, dir, share>>
  BY Begun
<1>2. /\ disturbed'[u] = (disturbed[u] \/ (op \in Provisioners /\ ~Quiet(u)))
      /\ \A v \in Users \ {u} : disturbed'[v] = disturbed[v]
      /\ \A v \in Users : disturbed[v] => disturbed'[v]
  <2>1. (op \in Provisioners /\ ~Quiet(u)) \in BOOLEAN
    OBVIOUS
  <2>2. disturbed' = [disturbed EXCEPT ![u] =
                        disturbed[u] \/ (op \in Provisioners /\ ~Quiet(u))]
    BY DEF Begin
  <2>3. disturbed \in [Users -> BOOLEAN]
    BY DEF IInv, TypeOK
  <2>4. QED
    BY <2>1, <2>2, <2>3
<1>3. \A v \in Users : Matched(v) => Matched(v)'
  BY <1>1 DEF Matched
<1>4. ASSUME NEW t \in Requests \ {r}, requests'[t] # Null
      PROVE  requests[t] # Null /\ requests[t] \in Request /\ requests[t].user \in Users
  BY <1>1, <1>4 DEF BegunAs, IInv, TypeOK, Request
<1>5. InOrder(requests[r])'
  <2>1. SUFFICES ASSUME op \in Provisioners
                 PROVE  /\ ~disturbed'[u] => Expected(requests[r])' /\ Undone(requests[r])'
                        /\ Undone(requests[r])'
    BY <1>1 DEF InOrder, BegunAs
  <2>2. \/ op = "create" /\ FirstStep[op] = "insert"
        \/ op = "enable" /\ FirstStep[op] = "mkdir"
        \/ op = "disable" /\ FirstStep[op] = "share"
        \/ op \in {"delete", "webdav"} /\ FirstStep[op] = "get"
    BY <2>1 DEF Provisioners, FirstStep
  <2>3. Undone(requests[r])'
    BY <1>1, <2>2 DEF BegunAs, Undone
  <2>4. ASSUME ~disturbed'[u]
        PROVE  Expected(requests[r])'
    <3>1. Quiet(u) /\ ~disturbed[u]
      BY <1>2, <2>1, <2>4
    <3>2. Matched(u)
      BY <3>1 DEF ShareInv, ProvisionedIffEnabled, Matched
    <3>3. Matched(u)'
      BY <1>3, <3>2
    <3>4. QED
      BY <1>1, <2>2, <3>3 DEF BegunAs, Expected
  <2>5. QED
    BY <2>3, <2>4
<1>6. ASSUME NEW t \in Requests \ {r}
      PROVE  InOrder(requests[t])'
  <2>1. SUFFICES ASSUME requests'[t] # Null, requests'[t].op \in Provisioners
                 PROVE  InOrder(requests[t])'
    BY DEF InOrder
  <2>2. requests[t] # Null /\ requests[t].user \in Users
    BY <1>4, <2>1
  <2>3. /\ requests'[t].op = requests[t].op /\ requests'[t].user = requests[t].user
        /\ requests'[t].step = requests[t].step
        /\ requests'[t].alone => requests[t].alone
    BY <1>1, <2>2 DEF BegunAs
  <2>4. /\ ~disturbed[requests[t].user] => Expected(requests[t]) /\ Undone(requests[t])
        /\ requests[t].alone => Undone(requests[t])
    BY <2>1, <2>2, <2>3 DEF ShareInv, InOrder
  <2>5. Expected(requests[t]) => Expected(requests[t])'
    BY <1>1, <2>3 DEF Expected, Matched
  <2>6. Undone(requests[t]) => Undone(requests[t])'
    BY <1>1, <2>3 DEF Undone
  <2>7. ~disturbed'[requests[t].user] => ~disturbed[requests[t].user]
    BY <1>2, <2>2
  <2>8. QED
    BY <2>3, <2>4, <2>5, <2>6, <2>7 DEF InOrder
<1>7. ASSUME NEW t \in Requests \ {r}, requests'[t] # Null, requests'[t].op \in Provisioners,
             requests'[t].user = u, op \in Provisioners
      PROVE  ~requests'[t].alone /\ ~requests'[r].alone /\ disturbed'[u]
  <2>1. ~requests'[t].alone /\ ~requests'[r].alone
    BY <1>1, <1>7, NoneAlone
  <2>2. t \in On(u, Provisioners)
    BY <1>1, <1>4, <1>7 DEF BegunAs, On
  <2>3. disturbed'[u]
    BY <1>2, <1>7, <2>2 DEF Quiet
  <2>4. QED
    BY <2>1, <2>3
<1>8. ASSUME NEW t \in Requests, NEW x \in Requests, t # x
      PROVE  Marked(requests[t], requests[x])'
  <2>1. Marked(requests[t], requests[x])
    BY <1>8 DEF ShareInv
  <2>2. CASE t # r /\ x # r
    <3>1. SUFFICES ASSUME requests'[t] # Null, requests'[x] # Null,
                          requests'[t].op \in Provisioners, requests'[x].op \in Provisioners,
                          requests'[t].user = requests'[x].user
                   PROVE  ~requests'[t].alone /\ ~requests'[x].alone
                          /\ disturbed'[requests'[t].user]
      BY DEF Marked
    <3>2. requests[t] # Null /\ requests[x] # Null /\ requests[t].user \in Users
      BY <1>4, <2>2, <3>1
    <3>3. /\ requests'[t].op = requests[t].op /\ requests'[t].user = requests[t].user
          /\ requests'[x].op = requests[x].op /\ requests'[x].user = requests[x].user
          /\ requests'[t].alone => requests[t].alone
          /\ requests'[x].alone => requests[x].alone
      BY <1>1, <2>2, <3>2 DEF BegunAs
    <3>4. QED
      BY <1>2, <2>1, <3>1, <3>2, <3>3 DEF Marked
  <2>3. CASE t = r
    BY <1>1, <1>7, <1>8, <2>3 DEF BegunAs, Marked
  <2>4. CASE x = r
    BY <1>1, <1>7, <1>8, <2>4 DEF BegunAs, Marked
  <2>5. QED
    BY <2>2, <2>3, <2>4
<1>9. ASSUME NEW v \in Users, Quiet(v)', ~disturbed'[v]
      PROVE  Matched(v)'
  <2>1. Quiet(v) /\ ~disturbed[v]
    <3>1. \A t \in On(v, Provisioners) : t \in On(v, Provisioners)'
      BY <1>1 DEF BegunAs, On
    <3>2. QED
      BY <1>2, <1>9, <3>1 DEF Quiet
  <2>2. QED
    BY <1>3, <2>1 DEF ShareInv, ProvisionedIffEnabled, Matched
<1>10. ProvisionedIffEnabled'
  BY <1>9 DEF ProvisionedIffEnabled, Matched
<1>11. QED
  BY <1>5, <1>6, <1>8, <1>10 DEF ShareInv

LEMMA RestartFits ==
    ASSUME IInv, ShareInv, Restart
    PROVE  ShareInv'
<1>1. \A r \in Requests : requests'[r] = Null
  BY DEF Restart
<1>2. \A v \in Users : ~disturbed'[v] => Quiet(v) /\ ~disturbed[v]
  BY DEF Restart
<1>3. UNCHANGED <<row, dir, share>>
  BY DEF Restart
<1>4. ProvisionedIffEnabled'
  BY <1>2, <1>3 DEF ShareInv, ProvisionedIffEnabled
<1>5. QED
  BY <1>1, <1>4 DEF ShareInv, InOrder, Marked

LEMMA InitFits == Init => ShareInv
BY DEF Init, ShareInv, InOrder, Marked, ProvisionedIffEnabled

LEMMA StepsFit == IInv /\ ShareInv /\ [Next]_vars => ShareInv'
<1> SUFFICES ASSUME IInv, ShareInv, [Next]_vars PROVE ShareInv'
  OBVIOUS
<1>1. CASE UNCHANGED vars
  <2>1. UNCHANGED <<row, dir, share, requests, disturbed>>
    BY <1>1 DEF vars
  <2>2. \A r \in Requests : InOrder(requests[r])'
    BY <2>1 DEF ShareInv, InOrder, Expected, Undone, Matched
  <2>3. \A r, s \in Requests : r # s => Marked(requests[r], requests[s])'
    BY <2>1 DEF ShareInv, Marked
  <2>4. ProvisionedIffEnabled'
    BY <2>1 DEF ShareInv, ProvisionedIffEnabled, Quiet, On
  <2>5. QED
    BY <2>2, <2>3, <2>4 DEF ShareInv
<1>2. CASE Restart
  BY <1>2, RestartFits
<1>3. ASSUME NEW r \in Requests, RequestStep(r)
      PROVE  ShareInv'
  BY <1>3, BeginFits, InsertFits, FailureFits, PasswordStepsFit, ReadFits, ReadFailureFits,
     MakeDirFits, ApplyShareFits, FlagFits, RemoveRowFits, MakeDirFailsFits, ShareFailsFits, SyncFits,
     RemoveDirFits, UndoRowFits, UndoDirFits DEF RequestStep
<1>4. QED
  BY <1>1, <1>2, <1>3 DEF Next

(* A user whose requests did not overlap, and were not left half-done, has *)
(* directory and share if and only if the flag is on.  Half-done includes  *)
(* a deletion that reports success but whose failed read of an enabled     *)
(* user's row made it skip the clean-up.  A disable or a deletion that     *)
(* reads the flag as on, and that nobody disturbs, makes it so whatever    *)
(* happened before (api.go:454-470, 545-562, 767-799).                     *)
THEOREM DirectoryFollowsFlag == Spec => []ProvisionedIffEnabled
<1>1. Spec => []IInv
  BY InitInv, StepInv, PTL DEF Spec
<1>2. Spec => []ShareInv
  BY <1>1, InitFits, StepsFit, PTL DEF Spec
<1>3. ShareInv => ProvisionedIffEnabled
  BY DEF ShareInv
<1>4. QED
  BY <1>2, <1>3, PTL
=============================================================================
