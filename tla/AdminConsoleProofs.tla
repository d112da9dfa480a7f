-------------------------- MODULE AdminConsoleProofs --------------------------
(***************************************************************************)
(* Theorems about AdminConsole, for every number of pages and users, every *)
(* menu of clicks, every page size and every length of a day: extensions   *)
(* are lost only to another one that began before they ended; the listing  *)
(* is the table's; what a click did only in part is shown; an export is    *)
(* complete but for the changes made under it.                             *)
(***************************************************************************)
EXTENDS AdminConsole, SequenceTheorems, FiniteSetTheorems, TLAPS

(* The part of TypeOK the argument needs.                                  *)
ConsoleTyped ==
    /\ clock \in Nat
    /\ users \in [Users -> UserRow \cup {Null}]
    /\ todo \in [Tabs -> Seq(Block)]
    /\ extending \in [Tabs -> Extension \cup {Null}]
    /\ promise \in [Users -> Nat]

(* What an extension has read is worth at least what was promised to the   *)
(* user it read: no promise is raised while somebody extends the user.     *)
ReadsCurrent ==
    \A t \in Tabs : extending[t] # Null /\ ~extending[t].overtaken =>
      promise[extending[t].user] <= extending[t].base

ConsoleInv == ConsoleTyped /\ ExtensionsKept /\ ReadsCurrent

(* A tab whose extension is awaited is still at that request.              *)
AwaitedSent ==
    \A t \in Tabs : extending[t] # Null /\ extending[t].awaited
                     => Sending(t, "extend")

-----------------------------------------------------------------------------
(* Lemmas about the operators.                                             *)

(* Larger is an upper bound of its arguments, and one of them.             *)
LEMMA LargerBound ==
    ASSUME NEW x \in Int, NEW y \in Int
    PROVE  /\ Larger(x, y) \in {x, y}
           /\ Larger(x, y) >= x
           /\ Larger(x, y) >= y
BY DEF Larger

(* Smaller is a lower bound of its arguments, and one of them.             *)
LEMMA SmallerBound ==
    ASSUME NEW x \in Int, NEW y \in Int
    PROVE  /\ Smaller(x, y) \in {x, y}
           /\ Smaller(x, y) <= x
           /\ Smaller(x, y) <= y
BY DEF Smaller

(* Days are counted in natural numbers of seconds.                         *)
LEMMA DaysNat ==
    ASSUME NEW k \in Nat, NEW q \in Nat
    PROVE  k * q \in Nat
OBVIOUS

(* An extension that runs to its end writes a later expiry.                *)
LEMMA NextExpiryBound ==
    ASSUME NEW e \in Extension
    PROVE  /\ NextExpiry(e) \in Nat
           /\ e.days * Day \in Nat
           /\ NextExpiry(e) >= e.base
           /\ \A p \in Nat : p <= e.base =>
                /\ Larger(p, e.now) + e.days * Day \in Nat
                /\ Larger(p, e.now) + e.days * Day <= NextExpiry(e)
<1>1. e.base \in Nat /\ e.now \in Nat /\ e.days \in Nat
  BY DEF Extension
<1>2. Day \in Nat
  BY ConsoleAssumption DEF ConsoleAssumption
<1> DEFINE k == e.days * Day
<1>3. k \in Nat
  BY <1>1, <1>2, DaysNat
<1>4. NextExpiry(e) = Larger(e.base, e.now) + k
  BY DEF NextExpiry
<1> HIDE DEF k
<1>5. NextExpiry(e) \in Nat /\ NextExpiry(e) >= e.base
  BY <1>1, <1>3, <1>4 DEF Larger
<1>6. ASSUME NEW p \in Nat, p <= e.base
      PROVE  /\ Larger(p, e.now) + k \in Nat
             /\ Larger(p, e.now) + k <= NextExpiry(e)
  BY <1>1, <1>3, <1>4, <1>6 DEF Larger
<1>7. QED
  BY <1>3, <1>5, <1>6 DEF k

(* The request a tab is sending is a request.                              *)
LEMMA SendingTyped ==
    ASSUME ConsoleTyped, NEW t \in Tabs, todo[t] # << >>
    PROVE  /\ Head(todo[t]) \in Block
           /\ Tail(todo[t]) \in Seq(Block)
           /\ Target(t) \in Users
           /\ Amount(t) \in Nat
<1>1. todo[t] \in Seq(Block)
  BY DEF ConsoleTyped
<1>2. Head(todo[t]) \in Block /\ Tail(todo[t]) \in Seq(Block)
  BY <1>1, HeadTailProperties
<1>3. Head(Head(todo[t])) \in Request
  BY <1>2, HeadTailProperties DEF Block
<1>4. QED
  BY <1>2, <1>3 DEF Target, Amount, Request

(* A block is a sequence of requests about one user, and so is what        *)
(* follows its first request.                                              *)
LEMMA BlockRest ==
    ASSUME NEW b \in Block, Len(b) # 1
    PROVE  /\ Tail(b) \in Block
           /\ Len(Tail(b)) = Len(b) - 1
           /\ \A i \in DOMAIN Tail(b) : i + 1 \in DOMAIN b /\ Tail(b)[i] = b[i + 1]
           /\ \A j \in DOMAIN b : j # 1 => j - 1 \in DOMAIN Tail(b)
           /\ Head(Tail(b)).user = Head(b).user
<1>1. b \in Seq(Request) /\ b # << >> /\ \A i \in DOMAIN b : b[i].user = b[1].user
  BY DEF Block
<1>2. Len(b) \in Nat \ {0} /\ DOMAIN b = 1..Len(b) /\ Head(b) = b[1]
  BY <1>1, EmptySeq, LenProperties
<1> DEFINE rest == Tail(b)
<1>3. /\ rest \in Seq(Request)
      /\ Len(rest) = Len(b) - 1
      /\ \A i \in 1..Len(rest) : rest[i] = b[i + 1]
  BY <1>1, HeadTailProperties
<1>4. DOMAIN rest = 1..Len(rest)
  BY <1>3, LenProperties
<1> HIDE DEF rest
<1>5. 1 \in DOMAIN rest
  BY <1>2, <1>3, <1>4
<1>6. \A i \in DOMAIN rest : i + 1 \in DOMAIN b /\ rest[i] = b[i + 1]
  BY <1>2, <1>3, <1>4
<1>7. \A i \in DOMAIN rest : rest[i].user = rest[1].user
  BY <1>1, <1>5, <1>6
<1>8. rest # << >>
  BY <1>2, <1>3, EmptySeq
<1>9. rest \in Block
  BY <1>3, <1>7, <1>8 DEF Block
<1>10. \A j \in DOMAIN b : j # 1 => j - 1 \in DOMAIN rest
  BY <1>2, <1>3, <1>4
<1>11. Head(rest).user = Head(b).user
  BY <1>1, <1>2, <1>5, <1>6
<1>12. QED
  BY <1>3, <1>6, <1>9, <1>10, <1>11 DEF rest

(* A request that ends leaves blocks.                                      *)
LEMMA TodoTyped ==
    ASSUME ConsoleTyped, NEW t \in Tabs, todo[t] # << >>,
           Refused(t) \/ Answered(t) \/ Replied(t)
    PROVE  todo' \in [Tabs -> Seq(Block)]
<1>1. /\ Head(todo[t]) \in Block
      /\ Tail(todo[t]) \in Seq(Block)
  BY SendingTyped
<1>2. todo \in [Tabs -> Seq(Block)]
  BY DEF ConsoleTyped
<1>3. CASE Refused(t)
  BY <1>1, <1>2, <1>3 DEF Refused
<1>4. CASE Answered(t)
  <2>1. CASE Len(Head(todo[t])) = 1
    BY <1>1, <1>2, <1>4, <2>1 DEF Answered
  <2>2. CASE Len(Head(todo[t])) # 1
    <3> DEFINE rest == Tail(Head(todo[t]))
    <3>1. rest \in Block
      BY <1>1, <2>2, BlockRest
    <3> HIDE DEF rest
    <3>2. <<rest>> \in Seq(Block)
      BY <3>1
    <3>3. <<rest>> \o Tail(todo[t]) \in Seq(Block)
      BY <1>1, <3>2, ConcatProperties
    <3>4. todo' = [todo EXCEPT ![t] = <<rest>> \o Tail(@)]
      BY <1>4, <2>2 DEF Answered, rest
    <3>5. QED
      BY <1>2, <3>3, <3>4
  <2>3. QED
    BY <2>1, <2>2
<1>5. QED
  BY <1>3, <1>4 DEF Replied

(* The row an INSERT writes is a row.                                      *)
LEMMA NewRowTyped ==
    ASSUME NEW pw \in Secrets, NEW e \in Nat
    PROVE  NewRow(pw, e, 0, 1) \in UserRow /\ NewRow(pw, e, 0, 1).expires_at = e
BY DEF NewRow, UserRow, Password, Hashed

(* A row that exists is a record of columns, and not Null.                 *)
LEMMA RowTyped ==
    ASSUME ConsoleTyped, NEW u \in Users, Exists(u)
    PROVE  users[u] \in UserRow
BY DEF ConsoleTyped, Exists

(* Null is neither a row nor an extension.                                 *)
LEMMA NullApart == Null \notin UserRow /\ Null \notin Extension
BY StoreAssumption, ConsoleAssumption DEF StoreAssumption, ConsoleAssumption

(* An extension that is overtaken changes in nothing else.                 *)
LEMMA OvertakenTyped ==
    ASSUME ConsoleTyped, NEW u \in Users, NEW s \in Tabs
    PROVE  /\ extending[s] = Null => Overtaken(u)[s] = Null
           /\ extending[s] # Null =>
                /\ Overtaken(u)[s] \in Extension
                /\ Overtaken(u)[s].user = extending[s].user
                /\ Overtaken(u)[s].days = extending[s].days
                /\ Overtaken(u)[s].awaited => extending[s].awaited
                /\ extending[s].user = u => Overtaken(u)[s].overtaken
                /\ extending[s].user # u => Overtaken(u)[s] = extending[s]
<1>1. CASE s \notin Extending(u)
  BY <1>1 DEF Overtaken, Extending, ConsoleTyped
<1>2. CASE s \in Extending(u)
  <2>1. extending[s] \in Extension
    BY <1>2 DEF Extending, ConsoleTyped
  <2>2. Overtaken(u)[s] = [extending[s] EXCEPT !.overtaken = TRUE]
    BY <1>2 DEF Overtaken
  <2>3. [extending[s] EXCEPT !.overtaken = TRUE] \in Extension
    BY <2>1 DEF Extension
  <2>4. /\ Overtaken(u)[s].user = extending[s].user
        /\ Overtaken(u)[s].days = extending[s].days
        /\ Overtaken(u)[s].awaited = extending[s].awaited
        /\ Overtaken(u)[s].overtaken = TRUE
    BY <2>1, <2>2 DEF Extension
  <2>5. extending[s] # Null /\ extending[s].user = u
    BY <1>2 DEF Extending
  <2>6. QED
    BY <2>2, <2>3, <2>4, <2>5
<1>3. QED
  BY <1>1, <1>2

-----------------------------------------------------------------------------
(* The invariant holds initially and is kept by every step.                *)

(* Every initial state satisfies the invariant.                            *)
LEMMA InitInv == Init => ConsoleInv
<1> SUFFICES ASSUME Init PROVE ConsoleInv
  OBVIOUS
<1>1. PICK pw \in Secrets, expires \in InitialExpiries :
        /\ users = [u \in Users |->
                      IF u \in Listed THEN NewRow(pw, expires, 0, 1) ELSE Null]
        /\ promise = [u \in Users |-> IF u \in Listed THEN expires ELSE 0]
  BY DEF Init
<1>2. expires \in Nat
  BY ConsoleAssumption DEF ConsoleAssumption
<1>3. /\ NewRow(pw, expires, 0, 1) \in UserRow
      /\ NewRow(pw, expires, 0, 1).expires_at = expires
  BY <1>2, NewRowTyped
<1>4. ConsoleTyped
  <2>1. clock \in Nat /\ extending \in [Tabs -> Extension \cup {Null}]
    BY DEF Init
  <2>2. users \in [Users -> UserRow \cup {Null}]
    BY <1>1, <1>3
  <2>3. promise \in [Users -> Nat]
    BY <1>1, <1>2
  <2>4. todo \in [Tabs -> Seq(Block)]
    BY EmptySeq DEF Init
  <2>5. QED
    BY <2>1, <2>2, <2>3, <2>4 DEF ConsoleTyped
<1>5. ExtensionsKept
  BY <1>1, <1>2, <1>3 DEF ExtensionsKept, Exists
<1>6. ReadsCurrent
  BY DEF Init, ReadsCurrent
<1>7. QED
  BY <1>4, <1>5, <1>6 DEF ConsoleInv

(* Steps that touch neither rows nor extensions.                           *)
LEMMA QuietStep ==
    ASSUME ConsoleInv,
           clock' \in Nat, todo' \in [Tabs -> Seq(Block)],
           UNCHANGED <<users, extending, promise>>
    PROVE  ConsoleInv'
BY DEF ConsoleInv, ConsoleTyped, ExtensionsKept, ReadsCurrent, Exists

(* Steps that end or abandon one extension and touch no row.               *)
LEMMA ExtensionEnds ==
    ASSUME ConsoleInv, NEW t \in Tabs,
           todo' \in [Tabs -> Seq(Block)],
           \/ extending' = [extending EXCEPT ![t] = Null]
           \/ /\ extending[t] # Null
              /\ extending' = [extending EXCEPT ![t].awaited = FALSE],
           UNCHANGED <<clock, users, promise>>
    PROVE  ConsoleInv'
<1>1. ConsoleTyped'
  <2>1. extending \in [Tabs -> Extension \cup {Null}]
    BY DEF ConsoleInv, ConsoleTyped
  <2>2. extending' \in [Tabs -> Extension \cup {Null}]
    <3>1. CASE extending' = [extending EXCEPT ![t] = Null]
      BY <2>1, <3>1
    <3>2. CASE /\ extending[t] # Null
               /\ extending' = [extending EXCEPT ![t].awaited = FALSE]
      <4>1. [extending[t] EXCEPT !.awaited = FALSE] \in Extension
        BY <2>1, <3>2 DEF Extension
      <4>2. QED
        BY <2>1, <3>2, <4>1
    <3>3. QED
      BY <3>1, <3>2
  <2>3. QED
    BY <2>2 DEF ConsoleInv, ConsoleTyped
<1>2. ExtensionsKept'
  BY DEF ConsoleInv, ExtensionsKept, Exists
<1>3. ReadsCurrent'
  BY DEF ConsoleInv, ConsoleTyped, ReadsCurrent, Extension
<1>4. QED
  BY <1>1, <1>2, <1>3 DEF ConsoleInv

(* A request that fails, and a page that is closed.                        *)
LEMMA RequestFailsInv ==
    ASSUME ConsoleInv, NEW t \in Tabs, RequestFails(t) \/ Close(t)
    PROVE  ConsoleInv'
<1>1. todo' \in [Tabs -> Seq(Block)]
  <2>1. CASE RequestFails(t)
    BY <2>1, TodoTyped DEF RequestFails, ConsoleInv
  <2>2. CASE Close(t)
    BY <2>2, EmptySeq DEF Close, ConsoleInv, ConsoleTyped
  <2>3. QED
    BY <2>1, <2>2
<1>2. UNCHANGED <<clock, users, promise>> /\ extending' = Unawaited(t)
  BY DEF RequestFails, Close, storeVars, histVars
<1>3. CASE extending[t] = Null
  BY <1>1, <1>2, <1>3, QuietStep DEF Unawaited, ConsoleInv, ConsoleTyped
<1>4. CASE extending[t] # Null
  BY <1>1, <1>2, <1>4, ExtensionEnds DEF Unawaited
<1>5. QED
  BY <1>3, <1>4

(* A new row starts with its expiry promised; whoever is extending the     *)
(* user of that name who was there before is overtaken.                    *)
LEMMA CreateInv ==
    ASSUME ConsoleInv, NEW t \in Tabs, Create(t)
    PROVE  ConsoleInv'
<1> DEFINE u == Target(t)
<1> DEFINE n == Amount(t)
<1>1. todo[t] # << >> /\ u \in Users /\ n \in Nat
  BY SendingTyped DEF Create, Sending, ConsoleInv
<1>2. todo' \in [Tabs -> Seq(Block)]
  BY <1>1, TodoTyped DEF Create, ConsoleInv
<1>3. PICK pw \in Secrets : users' = [users EXCEPT ![u] = NewRow(pw, n, 0, 1)]
  BY DEF Create, CreateUser
<1>4. promise' = [promise EXCEPT ![u] = n]
  BY DEF Create
<1>5. clock' = clock /\ extending' = Overtaken(u)
  BY DEF Create, CreateUser
<1> HIDE DEF u, n
<1>6. NewRow(pw, n, 0, 1) \in UserRow /\ NewRow(pw, n, 0, 1).expires_at = n
  BY <1>1, NewRowTyped
<1>7. ConsoleTyped'
  <2>1. extending' \in [Tabs -> Extension \cup {Null}]
    <3>1. \A s \in Tabs : Overtaken(u)[s] \in Extension \cup {Null}
      BY <1>1, OvertakenTyped DEF ConsoleInv
    <3>2. QED
      BY <1>5, <3>1 DEF Overtaken
  <2>2. QED
    BY <1>1, <1>2, <1>3, <1>4, <1>5, <1>6, <2>1 DEF ConsoleInv, ConsoleTyped
<1>8. ExtensionsKept'
  BY <1>1, <1>3, <1>4, <1>6 DEF ConsoleInv, ConsoleTyped, ExtensionsKept, Exists
<1>9. ReadsCurrent'
  <2> SUFFICES ASSUME NEW s \in Tabs, extending'[s] # Null, ~extending'[s].overtaken
               PROVE  promise'[extending'[s].user] <= extending'[s].base
    BY DEF ReadsCurrent
  <2>1. extending[s] # Null /\ extending[s].user # u /\ extending'[s] = extending[s]
    BY <1>1, <1>5, OvertakenTyped DEF ConsoleInv
  <2>2. promise[extending[s].user] <= extending[s].base
    BY <2>1 DEF ConsoleInv, ReadsCurrent
  <2>3. promise'[extending[s].user] = promise[extending[s].user]
    BY <1>4, <2>1 DEF ConsoleInv, ConsoleTyped, Extension
  <2>4. QED
    BY <2>1, <2>2, <2>3
<1>10. QED
  BY <1>7, <1>8, <1>9 DEF ConsoleInv

(* The first statement of an extension reads what was promised.            *)
LEMMA BeginExtendInv ==
    ASSUME ConsoleInv, NEW t \in Tabs, BeginExtend(t)
    PROVE  ConsoleInv'
<1> DEFINE u == Target(t)
<1>1. todo[t] # << >> /\ u \in Users /\ Amount(t) \in Nat
  BY SendingTyped DEF BeginExtend, Sending, ConsoleInv
<1>2. users[u] \in UserRow /\ Exists(u)
  BY <1>1, RowTyped DEF BeginExtend, ConsoleInv
<1>3. PICK now \in Larger(0, clock - MaxWait)..clock :
        extending' = [extending EXCEPT ![t] =
                        [user |-> u, days |-> Amount(t), now |-> now,
                         base |-> users[u].expires_at, awaited |-> TRUE,
                         overtaken |-> FALSE]]
  BY DEF BeginExtend
<1>4. UNCHANGED <<clock, users, promise, todo>>
  BY DEF BeginExtend, storeVars, histVars
<1>5. now \in Nat
  BY ConsoleAssumption DEF ConsoleAssumption, ConsoleInv, ConsoleTyped, Larger
<1> DEFINE e == [user |-> u, days |-> Amount(t), now |-> now,
                 base |-> users[u].expires_at, awaited |-> TRUE,
                 overtaken |-> FALSE]
<1>6. users[u].expires_at \in Nat /\ promise[u] <= users[u].expires_at
  BY <1>1, <1>2 DEF ConsoleInv, ExtensionsKept, UserRow
<1>7. e \in Extension /\ e.user = u /\ e.base = users[u].expires_at
  BY <1>1, <1>5, <1>6 DEF Extension
<1>8. extending' = [extending EXCEPT ![t] = e]
  BY <1>3
<1> HIDE DEF e, u
<1>9. ConsoleTyped'
  BY <1>4, <1>7, <1>8 DEF ConsoleInv, ConsoleTyped
<1>10. ExtensionsKept'
  BY <1>4 DEF ConsoleInv, ExtensionsKept, Exists
<1>11. ReadsCurrent'
  BY <1>4, <1>6, <1>7, <1>8 DEF ConsoleInv, ConsoleTyped, ReadsCurrent
<1>12. QED
  BY <1>9, <1>10, <1>11 DEF ConsoleInv

(* The second statement: what it writes is at least what was promised      *)
(* before, and at least what is promised now.                              *)
LEMMA CommitExtendInv ==
    ASSUME ConsoleInv, AwaitedSent, NEW t \in Tabs, CommitExtend(t)
    PROVE  ConsoleInv'
<1> DEFINE e == extending[t]
<1> DEFINE u == e.user
<1> DEFINE raised == Larger(promise[u], e.now) + e.days * Day
<1>1. e \in Extension /\ u \in Users /\ (~e.overtaken => promise[u] <= e.base)
  BY DEF ConsoleInv, ConsoleTyped, ReadsCurrent, CommitExtend, Extension
<1>2. promise[u] \in Nat /\ e.base \in Nat
  BY <1>1 DEF ConsoleInv, ConsoleTyped, Extension
<1>3. NextExpiry(e) \in Nat /\ NextExpiry(e) >= e.base
  BY <1>1, NextExpiryBound
<1> DEFINE lowered == Smaller(promise[u], NextExpiry(e))
<1>4. /\ ~e.overtaken => raised \in Nat /\ raised <= NextExpiry(e)
      /\ lowered \in Nat /\ lowered <= NextExpiry(e) /\ lowered <= promise[u]
  BY <1>1, <1>2, <1>3, NextExpiryBound, SmallerBound
<1>5. todo' \in [Tabs -> Seq(Block)]
  <2>1. CASE e.awaited
    <3>1. Replied(t) /\ todo[t] # << >>
      BY <2>1 DEF CommitExtend, AwaitedSent, Sending
    <3>2. QED
      BY <3>1, TodoTyped DEF ConsoleInv
  <2>2. CASE ~e.awaited
    BY <2>2 DEF CommitExtend, ConsoleInv, ConsoleTyped
  <2>3. QED
    BY <2>1, <2>2
<1>6. /\ users' = IF Exists(u)
                  THEN [users EXCEPT ![u].expires_at = NextExpiry(e)] ELSE users
      /\ promise' = [promise EXCEPT ![u] =
                        IF ~Exists(u) THEN promise[u]
                        ELSE IF e.overtaken THEN lowered
                        ELSE IF Extending(u) = {t} THEN raised
                        ELSE promise[u]]
      /\ extending' = [extending EXCEPT ![t] = Null]
      /\ clock' = clock
  BY DEF CommitExtend
<1>7. Exists(u) => users[u] \in UserRow
  BY <1>1, RowTyped DEF ConsoleInv
<1> HIDE DEF raised, lowered, u, e
<1>8. ConsoleTyped'
  <2>1. users' \in [Users -> UserRow \cup {Null}]
    BY <1>1, <1>3, <1>6, <1>7 DEF ConsoleInv, ConsoleTyped, UserRow
  <2>2. promise' \in [Users -> Nat]
    BY <1>1, <1>2, <1>4, <1>6 DEF ConsoleInv, ConsoleTyped
  <2>3. extending' \in [Tabs -> Extension \cup {Null}] /\ clock' \in Nat
    BY <1>6 DEF ConsoleInv, ConsoleTyped
  <2>4. QED
    BY <1>5, <2>1, <2>2, <2>3 DEF ConsoleTyped
<1>9. ExtensionsKept'
  <2> SUFFICES ASSUME NEW v \in Users, users'[v] # Null
               PROVE  users'[v].expires_at >= promise'[v]
    BY DEF ExtensionsKept, Exists
  <2>1. CASE v = u /\ Exists(u)
    <3>1. users'[v].expires_at = NextExpiry(e)
      BY <1>1, <1>6, <1>7, <2>1 DEF ConsoleInv, ConsoleTyped, UserRow
    <3>2. promise'[v] = IF e.overtaken THEN lowered
                        ELSE IF Extending(u) = {t} THEN raised ELSE promise[u]
      BY <1>1, <1>6, <2>1 DEF ConsoleInv, ConsoleTyped
    <3>3. QED
      BY <1>1, <1>2, <1>3, <1>4, <3>1, <3>2
  <2>2. CASE ~(v = u /\ Exists(u))
    <3>1. users'[v] = users[v] /\ promise'[v] = promise[v]
      BY <1>1, <1>6, <2>2 DEF ConsoleInv, ConsoleTyped
    <3>2. QED
      BY <3>1 DEF ConsoleInv, ExtensionsKept, Exists
  <2>3. QED
    BY <2>1, <2>2
<1>10. ReadsCurrent'
  <2> SUFFICES ASSUME NEW s \in Tabs, extending'[s] # Null, ~extending'[s].overtaken
               PROVE  promise'[extending'[s].user] <= extending'[s].base
    BY DEF ReadsCurrent
  <2>1. s # t /\ extending'[s] = extending[s]
    BY <1>6 DEF ConsoleInv, ConsoleTyped
  <2>2. extending[s] \in Extension /\ promise[extending[s].user] <= extending[s].base
    BY <2>1 DEF ConsoleInv, ConsoleTyped, ReadsCurrent
  <2>3. CASE extending[s].user = u
    <3>1. s \in Extending(u)
      BY <2>1, <2>3 DEF Extending
    <3>2. promise'[u] \in {promise[u], lowered}
      BY <1>1, <1>6, <2>1, <3>1 DEF ConsoleInv, ConsoleTyped
    <3>3. extending[s].base \in Nat
      BY <2>2 DEF Extension
    <3>4. QED
      BY <1>2, <1>4, <2>1, <2>2, <2>3, <3>2, <3>3
  <2>4. CASE extending[s].user # u
    <3>1. promise'[extending[s].user] = promise[extending[s].user]
      BY <1>6, <2>2, <2>4 DEF ConsoleInv, ConsoleTyped, Extension
    <3>2. QED
      BY <2>1, <2>2, <3>1
  <2>5. QED
    BY <2>3, <2>4
<1>11. QED
  BY <1>8, <1>9, <1>10 DEF ConsoleInv

(* An extension that ends without its second statement.                    *)
LEMMA AbortExtendInv ==
    ASSUME ConsoleInv, AwaitedSent, NEW t \in Tabs, AbortExtend(t)
    PROVE  ConsoleInv'
<1>1. todo' \in [Tabs -> Seq(Block)]
  <2>1. CASE extending[t].awaited
    BY <2>1, TodoTyped DEF AbortExtend, AwaitedSent, Sending, ConsoleInv
  <2>2. CASE ~extending[t].awaited
    BY <2>2 DEF AbortExtend, ConsoleInv, ConsoleTyped
  <2>3. QED
    BY <2>1, <2>2
<1>2. UNCHANGED <<clock, users, promise>>
  BY DEF AbortExtend, storeVars, histVars
<1>3. QED
  BY <1>1, <1>2, ExtensionEnds DEF AbortExtend

(* A changed status leaves the expiry.                                     *)
LEMMA DisableInv ==
    ASSUME ConsoleInv, NEW t \in Tabs, Disable(t)
    PROVE  ConsoleInv'
<1> DEFINE u == Target(t)
<1>1. todo[t] # << >> /\ u \in Users
  BY SendingTyped DEF Disable, Sending, ConsoleInv
<1>2. todo' \in [Tabs -> Seq(Block)]
  BY <1>1, TodoTyped DEF Disable, ConsoleInv
<1>3. UNCHANGED <<clock, extending, promise>>
  BY DEF Disable, SetUserStatus, UpdateUser, storeVars, histVars
<1>4. CASE ~Exists(u)
  <2>1. users' = users
    BY <1>4 DEF Disable, storeVars
  <2>2. QED
    BY <1>2, <1>3, <2>1, QuietStep DEF ConsoleInv, ConsoleTyped
<1>5. CASE Exists(u)
  <2>1. users' = [users EXCEPT ![u] = [users[u] EXCEPT !.status = 0]]
    BY <1>5 DEF Disable, SetUserStatus, UpdateUser
  <2>2. users[u] \in UserRow
    BY <1>1, <1>5, RowTyped DEF ConsoleInv
  <2> DEFINE row == [users[u] EXCEPT !.status = 0]
  <2>3. row \in UserRow /\ row.expires_at = users[u].expires_at
    BY <2>2 DEF UserRow
  <2>4. users' = [users EXCEPT ![u] = row]
    BY <2>1
  <2> HIDE DEF row, u
  <2>5. ConsoleTyped'
    BY <1>1, <1>2, <1>3, <2>3, <2>4 DEF ConsoleInv, ConsoleTyped
  <2>6. ExtensionsKept'
    BY <1>1, <1>3, <1>5, <2>3, <2>4 DEF ConsoleInv, ConsoleTyped, ExtensionsKept, Exists
  <2>7. ReadsCurrent'
    BY <1>3 DEF ConsoleInv, ReadsCurrent
  <2>8. QED
    BY <2>5, <2>6, <2>7 DEF ConsoleInv
<1>6. QED
  BY <1>4, <1>5

(* Nothing is promised to a name without a row.                            *)
LEMMA DeleteInv ==
    ASSUME ConsoleInv, NEW t \in Tabs, Delete(t)
    PROVE  ConsoleInv'
<1> DEFINE u == Target(t)
<1>1. todo[t] # << >> /\ u \in Users
  BY SendingTyped DEF Delete, Sending, ConsoleInv
<1>2. todo' \in [Tabs -> Seq(Block)]
  BY <1>1, TodoTyped DEF Delete, ConsoleInv
<1>3. /\ users' = [users EXCEPT ![u] = Null]
      /\ promise' = [promise EXCEPT ![u] = 0]
      /\ extending' = extending
      /\ clock' = clock
  BY DEF Delete, DeleteUser
<1> HIDE DEF u
<1>4. ConsoleTyped'
  BY <1>1, <1>2, <1>3 DEF ConsoleInv, ConsoleTyped
<1>5. ExtensionsKept'
  BY <1>1, <1>3 DEF ConsoleInv, ConsoleTyped, ExtensionsKept, Exists
<1>6. ReadsCurrent'
  <2> SUFFICES ASSUME NEW s \in Tabs, extending[s] # Null, ~extending[s].overtaken
               PROVE  promise'[extending[s].user] <= extending[s].base
    BY <1>3 DEF ReadsCurrent
  <2>1. /\ extending[s].user \in Users
        /\ extending[s].base \in Nat
        /\ promise[extending[s].user] <= extending[s].base
    BY DEF ConsoleInv, ConsoleTyped, ReadsCurrent, Extension
  <2>2. QED
    BY <1>1, <1>3, <2>1 DEF ConsoleInv, ConsoleTyped
<1>7. QED
  BY <1>4, <1>5, <1>6 DEF ConsoleInv

(* While an extension is awaited its tab does nothing else.                *)
LEMMA AwaitedStep ==
    ASSUME ConsoleInv, AwaitedSent, [Next]_vars
    PROVE  AwaitedSent'
<1> DEFINE Awaits(s) == extending[s] # Null /\ extending[s].awaited
<1>1. /\ todo \in [Tabs -> Seq(Block)]
      /\ extending \in [Tabs -> Extension \cup {Null}]
  BY DEF ConsoleInv, ConsoleTyped
<1>2. ASSUME UNCHANGED extending,
             \A s \in Tabs : Awaits(s) => todo'[s] = todo[s]
      PROVE  AwaitedSent'
  BY <1>2 DEF AwaitedSent, Sending
<1>3. ASSUME NEW t \in Tabs, ~Sending(t, "extend"), UNCHANGED extending,
             \A s \in Tabs \ {t} : todo'[s] = todo[s]
      PROVE  AwaitedSent'
  BY <1>3 DEF AwaitedSent, Sending
<1>4. ASSUME NEW t \in Tabs,
             \/ extending' = [extending EXCEPT ![t] = Null]
             \/ /\ extending[t] # Null
                /\ extending' = [extending EXCEPT ![t].awaited = FALSE],
             \A s \in Tabs \ {t} : todo'[s] = todo[s]
      PROVE  AwaitedSent'
  BY <1>1, <1>4 DEF AwaitedSent, Sending, Extension
<1>5. ASSUME NEW t \in Tabs, Refused(t) \/ Answered(t) \/ Replied(t)
      PROVE  \A s \in Tabs \ {t} : todo'[s] = todo[s]
  <2>1. CASE Refused(t)
    BY <1>1, <2>1 DEF Refused
  <2>2. CASE Answered(t)
    BY <1>1, <2>2 DEF Answered
  <2>3. QED
    BY <1>5, <2>1, <2>2 DEF Replied
<1>6. ASSUME NEW t \in Tabs, RequestFails(t) \/ Close(t)
      PROVE  AwaitedSent'
  <2>1. \A s \in Tabs \ {t} : todo'[s] = todo[s]
    BY <1>1, <1>5, <1>6 DEF RequestFails, Close
  <2>2. extending' = Unawaited(t)
    BY <1>6 DEF RequestFails, Close
  <2>3. CASE extending[t] = Null
    BY <1>2, <2>1, <2>2, <2>3 DEF Unawaited
  <2>4. CASE extending[t] # Null
    BY <1>4, <2>1, <2>2, <2>4 DEF Unawaited
  <2>5. QED
    BY <2>3, <2>4
<1>7. ASSUME NEW t \in Tabs, Create(t) \/ SetTag(t) \/ Disable(t) \/ Delete(t)
      PROVE  AwaitedSent'
  <2>1. Replied(t) /\ ~Sending(t, "extend")
    BY <1>7 DEF Create, SetTag, Disable, Delete, Sending
  <2>2. CASE Create(t)
    <3>1. Target(t) \in Users /\ extending' = Overtaken(Target(t))
      BY <2>2, SendingTyped DEF Create, Sending, ConsoleInv
    <3>2. ASSUME NEW s \in Tabs, extending'[s] # Null, extending'[s].awaited
          PROVE  Sending(s, "extend")'
      <4>1. Awaits(s)
        BY <3>1, <3>2, OvertakenTyped DEF ConsoleInv
      <4>2. Sending(s, "extend") /\ s # t
        BY <2>1, <4>1 DEF AwaitedSent
      <4>3. todo'[s] = todo[s]
        BY <1>5, <2>1, <4>2
      <4>4. QED
        BY <4>2, <4>3 DEF Sending
    <3>3. QED
      BY <3>2 DEF AwaitedSent
  <2>3. CASE ~Create(t)
    <3>1. extending' = extending
      BY <1>7, <2>3 DEF SetTag, Disable, Delete
    <3>2. QED
      BY <1>3, <1>5, <2>1, <3>1
  <2>4. QED
    BY <2>2, <2>3
<1>8. ASSUME NEW t \in Tabs, BeginExtend(t)
      PROVE  AwaitedSent'
  <2>1. Sending(t, "extend") /\ todo' = todo
    BY <1>8 DEF BeginExtend
  <2>2. \A s \in Tabs \ {t} : extending'[s] = extending[s]
    BY <1>1, <1>8 DEF BeginExtend
  <2>3. QED
    BY <2>1, <2>2 DEF AwaitedSent, Sending
<1>9. ASSUME NEW t \in Tabs, CommitExtend(t) \/ AbortExtend(t)
      PROVE  AwaitedSent'
  <2>1. \/ Replied(t) \/ Refused(t)
        \/ todo' = todo
    BY <1>9 DEF CommitExtend, AbortExtend
  <2>2. \A s \in Tabs \ {t} : todo'[s] = todo[s]
    BY <1>5, <2>1
  <2>3. extending' = [extending EXCEPT ![t] = Null]
    BY <1>9 DEF CommitExtend, AbortExtend
  <2>4. QED
    BY <1>4, <2>2, <2>3
<1>10. ASSUME NEW t \in Tabs, NEW click \in Clicks, Submit(t, click)
       PROVE  AwaitedSent'
  <2>1. todo[t] = << >> /\ extending' = extending
    BY <1>10 DEF Submit, Click, AtWork
  <2>2. \A s \in Tabs \ {t} : todo'[s] = todo[s]
    BY <1>1, <1>10 DEF Submit
  <2>3. QED
    BY <1>3, <2>1, <2>2 DEF Sending
<1>11. ASSUME NEW t \in Tabs, NEW filter \in Filters, StartFetch(t, filter)
       PROVE  AwaitedSent'
  BY <1>2, <1>11 DEF StartFetch, Click
<1>12. ASSUME NEW t \in Tabs,
              \/ CountUsers(t) \/ SelectPage(t) \/ FetchFails(t)
              \/ Show(t) \/ Replaced(t)
       PROVE  AwaitedSent'
  BY <1>2, <1>12 DEF CountUsers, SelectPage, FetchFails, Show, Replaced
<1>13. CASE Tick \/ UNCHANGED vars
  BY <1>2, <1>13 DEF Tick, tabVars, vars
<1>14. QED
  BY <1>6, <1>7, <1>8, <1>9, <1>10, <1>11, <1>12, <1>13 DEF Next, TabStep

(* Every step of a tab keeps the invariant.                                *)
LEMMA TabStepInv ==
    ASSUME ConsoleInv, AwaitedSent, NEW t \in Tabs, TabStep(t)
    PROVE  ConsoleInv'
<1>1. CASE SetTag(t)
  <2>1. todo' \in [Tabs -> Seq(Block)]
    BY <1>1, TodoTyped DEF SetTag, Sending, ConsoleInv
  <2>2. QED
    BY <1>1, <2>1, QuietStep DEF SetTag, storeVars, histVars, ConsoleInv, ConsoleTyped
<1>2. CASE \/ CountUsers(t) \/ SelectPage(t) \/ FetchFails(t)
           \/ Show(t) \/ Replaced(t)
  <2>1. UNCHANGED <<storeVars, todo, extending, promise>>
    BY <1>2 DEF CountUsers, SelectPage, FetchFails, Show, Replaced, histVars
  <2>2. QED
    BY <2>1, QuietStep DEF storeVars, ConsoleInv, ConsoleTyped
<1>3. QED
  BY <1>1, <1>2, RequestFailsInv, CreateInv, BeginExtendInv, CommitExtendInv,
     AbortExtendInv, DisableInv, DeleteInv DEF TabStep

(* Every step of the system keeps the invariant.                           *)
LEMMA NextInv == ConsoleInv /\ AwaitedSent /\ [Next]_vars => ConsoleInv'
<1> SUFFICES ASSUME ConsoleInv, AwaitedSent, [Next]_vars PROVE ConsoleInv'
  OBVIOUS
<1>1. ASSUME NEW t \in Tabs, NEW click \in Clicks, Submit(t, click)
      PROVE  ConsoleInv'
  <2>1. click \in Seq(Block)
    BY ConsoleAssumption DEF ConsoleAssumption
  <2>2. todo' \in [Tabs -> Seq(Block)]
    BY <1>1, <2>1 DEF Submit, ConsoleInv, ConsoleTyped
  <2>3. QED
    BY <1>1, <2>2, QuietStep DEF Submit, Click, storeVars, histVars, ConsoleInv, ConsoleTyped
<1>2. ASSUME NEW t \in Tabs, NEW filter \in Filters, StartFetch(t, filter)
      PROVE  ConsoleInv'
  BY <1>2, QuietStep DEF StartFetch, Click, storeVars, histVars, ConsoleInv, ConsoleTyped
<1>3. CASE Tick
  <2>1. UNCHANGED <<users, todo, extending, promise>>
    BY <1>3 DEF Tick, tabVars, histVars
  <2>2. clock' \in Nat
    BY <1>3 DEF Tick, ConsoleInv, ConsoleTyped
  <2>3. QED
    BY <2>1, <2>2, QuietStep DEF ConsoleInv, ConsoleTyped
<1>4. CASE UNCHANGED vars
  BY <1>4, QuietStep DEF vars, storeVars, tabVars, histVars, ConsoleInv, ConsoleTyped
<1>5. QED
  BY <1>1, <1>2, <1>3, <1>4, TabStepInv DEF Next

(* A user keeps what it was created with and the days of every extension   *)
(* no other one of the same user overlapped, but for what is overwritten   *)
(* by an extension of the name's last user: no more than what that one's   *)
(* expiry falls short of (store.go:946-962).                               *)
THEOREM NoExtensionLost == Spec => []ExtensionsKept
<1>1. Init => AwaitedSent
  BY DEF Init, AwaitedSent
<1>2. AwaitedSent /\ ConsoleInv /\ [Next]_vars => AwaitedSent'
  BY AwaitedStep
<1>3. ConsoleInv => ExtensionsKept
  BY DEF ConsoleInv
<1>4. QED
  BY InitInv, NextInv, <1>1, <1>2, <1>3, PTL DEF Spec

-----------------------------------------------------------------------------
(* Types and the listing.  The listing stays a permutation of the users of *)
(* the table: injective, and of the same members.                          *)

Distinct(list) == \A i, j \in DOMAIN list : list[i] = list[j] => i = j

ListingInv ==
    /\ listing \in Seq(Users)
    /\ Distinct(listing)
    /\ \A u \in Users : Exists(u) <=> \E i \in DOMAIN listing : listing[i] = u

(* What is left of TypeOK.                                                 *)
RestTyped ==
    /\ active_ips \in [Users -> [IPs -> DeviceRow \cup {Null}]]
    /\ report \in [Tabs -> {"none", "failed", "shown"}]
    /\ fetch \in [Tabs -> Fetch]
    /\ clicks \in 0..MaxClicks
    /\ asked \in [Users -> Follow \cup {Null}]

(* A sequence with a new element is still without repeats.                 *)
LEMMA Inserted ==
    ASSUME NEW S, NEW s \in Seq(S), Distinct(s), NEW x \in S,
           \A j \in DOMAIN s : s[j] # x, NEW i \in 0..Len(s)
    PROVE  /\ ListedAt(s, i, x) \in Seq(S)
           /\ Distinct(ListedAt(s, i, x))
           /\ \A v \in S :
                (\E j \in DOMAIN ListedAt(s, i, x) : ListedAt(s, i, x)[j] = v)
                  <=> v = x \/ \E j \in DOMAIN s : s[j] = v
<1> DEFINE r == ListedAt(s, i, x)
<1>0. /\ r \in Seq(S)
      /\ Len(r) = Len(s) + 1
      /\ \A j \in 1..(Len(s) + 1) : r[j] = IF j <= i THEN s[j] ELSE IF j = i + 1 THEN x ELSE s[j - 1]
  <2>1. Len(s) \in Nat /\ \A j \in 1..Len(s) : s[j] \in S
    BY LenProperties, ElementOfSeq
  <2>2. r \in [1..(Len(s) + 1) -> S]
    BY <2>1 DEF ListedAt
  <2>3. r \in Seq(S)
    BY <2>1, <2>2, SeqDef
  <2>4. Len(r) = Len(s) + 1
    BY <2>1, <2>2, <2>3, LenProperties DEF ListedAt
  <2>5. QED
    BY <2>3, <2>4 DEF ListedAt
<1> HIDE DEF r
<1>1. Len(s) \in Nat /\ DOMAIN s = 1..Len(s) /\ DOMAIN r = 1..(Len(s) + 1)
  BY <1>0, LenProperties
<1>2. ASSUME NEW j \in DOMAIN r, NEW l \in DOMAIN r, r[j] = r[l], j < l
      PROVE  FALSE
  <2>1. CASE j = i + 1
    BY <1>0, <1>1, <1>2, <2>1
  <2>2. CASE l = i + 1
    BY <1>0, <1>1, <1>2, <2>2
  <2>3. CASE j # i + 1 /\ l # i + 1
    <3> DEFINE at(k) == IF k <= i THEN k ELSE k - 1
    <3>1. at(j) \in DOMAIN s /\ at(l) \in DOMAIN s /\ at(j) # at(l)
      BY <1>0, <1>1, <1>2, <2>3
    <3>2. r[j] = s[at(j)] /\ r[l] = s[at(l)]
      BY <1>0, <1>1, <2>3
    <3> HIDE DEF at
    <3>3. QED
      BY <1>2, <3>1, <3>2 DEF Distinct
  <2>4. QED
    BY <2>1, <2>2, <2>3
<1>3. Distinct(r)
  BY <1>0, <1>1, <1>2 DEF Distinct
<1>4. r[i + 1] = x /\ i + 1 \in DOMAIN r
  BY <1>0, <1>1
<1>5. ASSUME NEW j \in DOMAIN s
      PROVE  \E l \in DOMAIN r : r[l] = s[j]
  <2>1. CASE j <= i
    BY <1>0, <1>1, <2>1
  <2>2. CASE ~(j <= i)
    <3>1. j + 1 \in DOMAIN r /\ r[j + 1] = s[j]
      BY <1>0, <1>1, <2>2
    <3>2. QED
      BY <3>1
  <2>3. QED
    BY <2>1, <2>2
<1>6. ASSUME NEW j \in DOMAIN r
      PROVE  r[j] = x \/ \E l \in DOMAIN s : s[l] = r[j]
  <2>1. CASE j <= i
    BY <1>0, <1>1, <2>1
  <2>2. CASE ~(j <= i) /\ j # i + 1
    <3>1. j - 1 \in DOMAIN s /\ r[j] = s[j - 1]
      BY <1>0, <1>1, <2>2
    <3>2. QED
      BY <3>1
  <2>3. QED
    BY <1>4, <2>1, <2>2
<1>7. \A v \in S : (\E j \in DOMAIN r : r[j] = v) <=> v = x \/ \E j \in DOMAIN s : s[j] = v
  BY <1>4, <1>5, <1>6
<1>8. QED
  BY <1>0, <1>3, <1>7 DEF r

(* A sequence without one of its elements has the others.                  *)
LEMMA Removed ==
    ASSUME NEW S, NEW s \in Seq(S), Distinct(s), NEW i \in DOMAIN s
    PROVE  /\ UnlistedAt(s, i) \in Seq(S)
           /\ Distinct(UnlistedAt(s, i))
           /\ \A v \in S :
                (\E j \in DOMAIN UnlistedAt(s, i) : UnlistedAt(s, i)[j] = v)
                  <=> v # s[i] /\ \E j \in DOMAIN s : s[j] = v
<1> DEFINE r == UnlistedAt(s, i)
<1>0. /\ r \in Seq(S)
      /\ Len(r) = Len(s) - 1
      /\ \A j \in 1..(Len(s) - 1) : r[j] = IF j < i THEN s[j] ELSE s[j + 1]
  <2>1. Len(s) \in Nat \ {0} /\ \A j \in 1..Len(s) : s[j] \in S
    BY LenProperties, ElementOfSeq
  <2>2. r \in [1..(Len(s) - 1) -> S]
    BY <2>1 DEF UnlistedAt
  <2>3. r \in Seq(S)
    BY <2>1, <2>2, SeqDef
  <2>4. Len(r) = Len(s) - 1
    BY <2>1, <2>2, <2>3, LenProperties DEF UnlistedAt
  <2>5. QED
    BY <2>3, <2>4 DEF UnlistedAt
<1> HIDE DEF r
<1>1. Len(s) \in Nat /\ DOMAIN s = 1..Len(s) /\ DOMAIN r = 1..(Len(s) - 1)
  BY <1>0, LenProperties
<1>2. ASSUME NEW j \in DOMAIN r, NEW l \in DOMAIN r, r[j] = r[l], j < l
      PROVE  FALSE
  <2> DEFINE at(k) == IF k < i THEN k ELSE k + 1
  <2>1. at(j) \in DOMAIN s /\ at(l) \in DOMAIN s /\ at(j) # at(l)
    BY <1>0, <1>1, <1>2
  <2>2. r[j] = s[at(j)] /\ r[l] = s[at(l)]
    BY <1>0, <1>1
  <2> HIDE DEF at
  <2>3. QED
    BY <1>2, <2>1, <2>2 DEF Distinct
<1>3. Distinct(r)
  BY <1>0, <1>1, <1>2 DEF Distinct
<1>4. ASSUME NEW j \in DOMAIN s, j # i
      PROVE  \E l \in DOMAIN r : r[l] = s[j]
  <2>1. CASE j < i
    BY <1>0, <1>1, <2>1
  <2>2. CASE j > i
    <3>1. j - 1 \in DOMAIN r /\ r[j - 1] = s[j]
      BY <1>0, <1>1, <2>2
    <3>2. QED
      BY <3>1
  <2>3. QED
    BY <1>0, <1>1, <1>4, <2>1, <2>2
<1>5. ASSUME NEW j \in DOMAIN r
      PROVE  \E l \in DOMAIN s : l # i /\ s[l] = r[j]
  <2>1. CASE j < i
    BY <1>0, <1>1, <2>1
  <2>2. CASE ~(j < i)
    <3>1. j + 1 \in DOMAIN s /\ j + 1 # i /\ r[j] = s[j + 1]
      BY <1>0, <1>1, <2>2
    <3>2. QED
      BY <3>1
  <2>3. QED
    BY <2>1, <2>2
<1>6. \A l \in DOMAIN s : l # i => s[l] # s[i]
  BY DEF Distinct
<1>7. \A v \in S : (\E j \in DOMAIN r : r[j] = v) <=> v # s[i] /\ \E j \in DOMAIN s : s[j] = v
  BY <1>4, <1>5, <1>6
<1>8. QED
  BY <1>0, <1>3, <1>7 DEF r

(* The table's users are as many as the listing is long, so a finite set.  *)
LEMMA ListingCounts ==
    ListingInv => /\ IsFiniteSet({u \in Users : Exists(u)})
                  /\ Cardinality({u \in Users : Exists(u)}) = Len(listing)
                  /\ {listing[i] : i \in DOMAIN listing} = {u \in Users : Exists(u)}
<1> SUFFICES ASSUME ListingInv
             PROVE  /\ IsFiniteSet({u \in Users : Exists(u)})
                    /\ Cardinality({u \in Users : Exists(u)}) = Len(listing)
                    /\ {listing[i] : i \in DOMAIN listing} = {u \in Users : Exists(u)}
  OBVIOUS
<1> DEFINE there == {u \in Users : Exists(u)}
<1>1. /\ Len(listing) \in Nat /\ DOMAIN listing = 1..Len(listing)
      /\ \A i \in 1..Len(listing) : listing[i] \in Users
  BY LenProperties, ElementOfSeq DEF ListingInv
<1>2. \A u \in Users : Exists(u) <=> \E i \in 1..Len(listing) : listing[i] = u
  BY <1>1 DEF ListingInv
<1>3. listing \in [1..Len(listing) -> there] /\ {listing[i] : i \in DOMAIN listing} = there
  <2>1. \A i \in 1..Len(listing) : listing[i] \in there
    BY <1>1, <1>2
  <2>2. listing \in [1..Len(listing) -> Users]
    BY LenProperties DEF ListingInv
  <2>3. \A u \in there : \E i \in DOMAIN listing : listing[i] = u
    BY <1>1, <1>2
  <2> HIDE DEF there
  <2>4. QED
    BY <1>1, <2>1, <2>2, <2>3
<1>4. listing \in Surjection(1..Len(listing), there)
  BY <1>2, <1>3 DEF Surjection
<1>5. listing \in Injection(1..Len(listing), there)
  BY <1>1, <1>3 DEF Injection, IsInjective, ListingInv, Distinct
<1>6. IsFiniteSet(1..Len(listing)) /\ Cardinality(1..Len(listing)) = Len(listing)
  BY <1>1, FS_Interval
<1> HIDE DEF there
<1>7. IsFiniteSet(there) /\ Cardinality(there) = Len(listing)
  BY <1>4, <1>5, <1>6, FS_Surjection
<1>8. QED
  BY <1>3, <1>7 DEF there

(* So a filter lets finitely many of them through.                         *)
LEMMA MatchingFinite ==
    ListingInv => \A filter \in Filters :
                    /\ IsFiniteSet(MatchingIn(users, filter))
                    /\ Cardinality(MatchingIn(users, filter)) \in Nat
<1> SUFFICES ASSUME ListingInv, NEW filter \in Filters
             PROVE  /\ IsFiniteSet(MatchingIn(users, filter))
                    /\ Cardinality(MatchingIn(users, filter)) \in Nat
  OBVIOUS
<1>1. IsFiniteSet({u \in Users : Exists(u)})
  BY ListingCounts
<1>2. MatchingIn(users, filter) \in SUBSET {u \in Users : Exists(u)}
  BY DEF MatchingIn, Matches, Exists
<1>3. IsFiniteSet(MatchingIn(users, filter))
  BY <1>1, <1>2, FS_Subset
<1>4. QED
  BY <1>3, FS_CardinalityType

(* The listing of the existing database.                                   *)
LEMMA ListingInit == Init => ListingInv
<1> SUFFICES ASSUME Init PROVE ListingInv
  OBVIOUS
<1>1. listing = InitialListing
  BY DEF Init
<1>2. InitialListing \in Seq(Users) /\ Distinct(InitialListing)
  BY ConsoleAssumption DEF ConsoleAssumption, Distinct
<1>3. PICK pw \in Secrets, expires \in InitialExpiries :
        users = [u \in Users |->
                   IF u \in Listed THEN NewRow(pw, expires, 0, 1) ELSE Null]
  BY DEF Init
<1>4. NewRow(pw, expires, 0, 1) # Null
  BY NewRowTyped, NullApart, ConsoleAssumption DEF ConsoleAssumption
<1>5. \A u \in Users : Exists(u) <=> u \in Listed
  BY <1>3, <1>4 DEF Exists
<1>6. QED
  BY <1>1, <1>2, <1>5 DEF ListingInv, Listed

(* Steps that neither add nor remove a row.                                *)
LEMMA ListingSame ==
    ASSUME ListingInv, listing' = listing,
           \A u \in Users : users'[u] # Null <=> Exists(u)
    PROVE  ListingInv'
BY DEF ListingInv, Exists

(* A creation adds its row to the listing.                                 *)
LEMMA CreateLists ==
    ASSUME ConsoleInv, ListingInv, NEW t \in Tabs, Create(t)
    PROVE  ListingInv'
<1> DEFINE x == Target(t)
<1>1. x \in Users /\ Amount(t) \in Nat /\ ~Exists(x)
  BY SendingTyped DEF Create, Sending, ConsoleInv, CreateUser
<1>2. PICK pw \in Secrets, i \in 0..Len(listing) :
        /\ users' = [users EXCEPT ![x] = NewRow(pw, Amount(t), 0, 1)]
        /\ listing' = ListedAt(listing, i, x)
  BY DEF Create, CreateUser
<1>3. NewRow(pw, Amount(t), 0, 1) # Null
  BY <1>1, NewRowTyped, NullApart
<1> HIDE DEF x
<1>4. \A u \in Users : users'[u] # Null <=> u = x \/ Exists(u)
  BY <1>1, <1>2, <1>3 DEF ConsoleInv, ConsoleTyped, Exists
<1>5. listing \in Seq(Users) /\ Distinct(listing) /\ \A j \in DOMAIN listing : listing[j] # x
  BY <1>1 DEF ListingInv
<1>6. /\ listing' \in Seq(Users)
      /\ Distinct(listing')
      /\ \A v \in Users : (\E j \in DOMAIN listing' : listing'[j] = v)
                           <=> v = x \/ \E j \in DOMAIN listing : listing[j] = v
  BY <1>1, <1>2, <1>5, Inserted
<1>7. QED
  BY <1>4, <1>6 DEF ListingInv, Exists, Distinct

(* A deletion takes its row out of the listing.                            *)
LEMMA DeleteUnlists ==
    ASSUME ConsoleInv, ListingInv, NEW t \in Tabs, Delete(t)
    PROVE  ListingInv'
<1> DEFINE x == Target(t)
<1>1. x \in Users
  BY SendingTyped DEF Delete, Sending, ConsoleInv
<1>2. PICK i \in DOMAIN listing :
        /\ users' = [users EXCEPT ![x] = Null]
        /\ listing[i] = x
        /\ listing' = UnlistedAt(listing, i)
  BY DEF Delete, DeleteUser
<1> HIDE DEF x
<1>3. \A u \in Users : users'[u] # Null <=> u # x /\ Exists(u)
  BY <1>1, <1>2 DEF ConsoleInv, ConsoleTyped, Exists
<1>4. listing \in Seq(Users) /\ Distinct(listing)
  BY DEF ListingInv
<1>5. /\ listing' \in Seq(Users)
      /\ Distinct(listing')
      /\ \A v \in Users : (\E j \in DOMAIN listing' : listing'[j] = v)
                           <=> v # x /\ \E j \in DOMAIN listing : listing[j] = v
  BY <1>2, <1>4, Removed
<1>6. QED
  BY <1>3, <1>5 DEF ListingInv, Exists, Distinct

(* An extension changes a row, if there still is one.                      *)
LEMMA CommitLists ==
    ASSUME ConsoleInv, ListingInv, NEW t \in Tabs, CommitExtend(t)
    PROVE  ListingInv'
<1> DEFINE e == extending[t]
           row == [users[e.user] EXCEPT !.expires_at = NextExpiry(e)]
<1>1. e \in Extension /\ e.user \in Users
  BY DEF ConsoleInv, ConsoleTyped, CommitExtend, Extension
<1>2. users' = (IF Exists(e.user) THEN [users EXCEPT ![e.user] = row] ELSE users)
      /\ listing' = listing
  BY DEF CommitExtend
<1>3. Exists(e.user) => row # Null
  <2>1. Exists(e.user) => users[e.user] \in UserRow
    BY <1>1, RowTyped DEF ConsoleInv
  <2>2. NextExpiry(e) \in Nat
    BY <1>1, NextExpiryBound
  <2>3. Exists(e.user) => row \in UserRow
    BY <2>1, <2>2 DEF UserRow
  <2>4. QED
    BY <2>3, NullApart
<1> HIDE DEF e, row
<1>4. QED
  BY <1>1, <1>2, <1>3, ListingSame DEF ConsoleInv, ConsoleTyped, Exists

(* A changed status is a changed row.                                      *)
LEMMA DisableLists ==
    ASSUME ConsoleInv, ListingInv, NEW t \in Tabs, Disable(t)
    PROVE  ListingInv'
<1> DEFINE x == Target(t)
           row == [users[x] EXCEPT !.status = 0]
<1>1. x \in Users
  BY SendingTyped DEF Disable, Sending, ConsoleInv
<1>2. users' = (IF Exists(x) THEN [users EXCEPT ![x] = row] ELSE users)
      /\ listing' = listing
  BY DEF Disable, SetUserStatus, UpdateUser, storeVars
<1>3. Exists(x) => row # Null
  <2>1. Exists(x) => users[x] \in UserRow
    BY <1>1, RowTyped DEF ConsoleInv
  <2>2. Exists(x) => row \in UserRow
    BY <2>1 DEF UserRow
  <2>3. QED
    BY <2>2, NullApart
<1> HIDE DEF x, row
<1>4. QED
  BY <1>1, <1>2, <1>3, ListingSame DEF ConsoleInv, ConsoleTyped, Exists

(* Every step keeps the listing.                                           *)
LEMMA ListingStep ==
    ASSUME ConsoleInv, ListingInv, [Next]_vars
    PROVE  ListingInv'
<1>1. ASSUME UNCHANGED <<users, listing>>
      PROVE  ListingInv'
  BY <1>1, ListingSame DEF Exists
<1>2. ASSUME NEW t \in Tabs, NEW click \in Clicks, Submit(t, click)
      PROVE  ListingInv'
  BY <1>1, <1>2 DEF Submit, Click, storeVars
<1>3. ASSUME NEW t \in Tabs, NEW filter \in Filters, StartFetch(t, filter)
      PROVE  ListingInv'
  BY <1>1, <1>3 DEF StartFetch, Click, storeVars
<1>4. ASSUME NEW t \in Tabs,
             \/ RequestFails(t) \/ BeginExtend(t) \/ AbortExtend(t) \/ SetTag(t)
             \/ CountUsers(t) \/ SelectPage(t) \/ FetchFails(t)
             \/ Show(t) \/ Replaced(t) \/ Close(t)
      PROVE  ListingInv'
  BY <1>1, <1>4 DEF RequestFails, BeginExtend, AbortExtend, SetTag, CountUsers,
     SelectPage, FetchFails, Show, Replaced, Close, storeVars
<1>5. CASE Tick \/ UNCHANGED vars
  BY <1>1, <1>5 DEF Tick, tabVars, vars, storeVars
<1>6. QED
  BY <1>2, <1>3, <1>4, <1>5, CreateLists, DeleteUnlists, CommitLists, DisableLists
     DEF Next, TabStep

(* A tab that fetches nothing.                                             *)
LEMMA NoFetchTyped ==
    /\ NoFetch \in Fetch
    /\ NoFetch.step = "idle"
<1>1. (CHOOSE f \in Filters : TRUE) \in Filters
  BY ConsoleAssumption DEF ConsoleAssumption
<1>2. << >> \in Seq(Users)
  BY EmptySeq
<1>3. QED
  BY <1>1, <1>2 DEF NoFetch, Fetch

(* What a query finds is a sequence of users.                              *)
LEMMA FoundTyped ==
    ASSUME ListingInv, NEW filter, NEW found \in Found(filter)
    PROVE  found \in Seq(Users)
<1> DEFINE places == {i \in DOMAIN listing : Matches(users[listing[i]], filter)}
<1>1. /\ Len(listing) \in Nat /\ DOMAIN listing = 1..Len(listing)
      /\ \A i \in 1..Len(listing) : listing[i] \in Users
  BY LenProperties, ElementOfSeq DEF ListingInv
<1>2. IsFiniteSet(1..Len(listing)) /\ places \in SUBSET (1..Len(listing))
  BY <1>1, FS_Interval
<1>3. Cardinality(places) \in Nat
  BY <1>2, FS_Subset, FS_CardinalityType
<1>4. PICK place \in [1..Cardinality(places) -> places] :
        found = [k \in DOMAIN place |-> listing[place[k]]]
  BY DEF Found
<1>5. \A i \in places : listing[i] \in Users
  BY <1>1
<1> HIDE DEF places
<1>6. found \in [1..Cardinality(places) -> Users]
  BY <1>4, <1>5
<1>7. QED
  BY <1>3, <1>6, SeqDef

(* A page of it too.                                                       *)
LEMMA PageTyped ==
    ASSUME NEW found \in Seq(Users), NEW offset \in Nat, NEW limit \in Nat
    PROVE  Page(found, offset, limit) \in Seq(Users)
<1>1. Len(found) \in Nat /\ \A i \in 1..Len(found) : found[i] \in Users
  BY LenProperties, ElementOfSeq
<1> DEFINE last == IF offset + limit < Len(found) THEN offset + limit ELSE Len(found)
<1>2. last \in Nat /\ last <= Len(found)
  BY <1>1
<1>3. Page(found, offset, limit) = SubSeq(found, offset + 1, last)
  BY DEF Page
<1> HIDE DEF last
<1>4. \A i \in (offset + 1)..last : found[i] \in Users
  BY <1>1, <1>2
<1>5. offset + 1 \in Int /\ last \in Int
  BY <1>2
<1>6. QED
  BY <1>3, <1>4, <1>5, SubSeqProperties

(* ListUsers never takes a limit it does not serve.                        *)
LEMMA LimitTyped == Limit(PageSize) \in Nat /\ PageSize \in Nat
BY ConsoleAssumption DEF ConsoleAssumption, Limit

(* The history of an export keeps its type while rows come and go.         *)
LEMMA WatchedTyped ==
    ASSUME fetch \in [Tabs -> Fetch], ListingInv, ListingInv', fetch' = Watched(users')
    PROVE  fetch' \in [Tabs -> Fetch]
<1> SUFFICES ASSUME NEW t \in Tabs PROVE fetch'[t] \in Fetch
  BY DEF Watched
<1>1. fetch[t] \in Fetch /\ fetch[t].filter \in Filters
  BY DEF Fetch
<1> DEFINE before == MatchingIn(users, fetch[t].filter)
           after  == MatchingIn(users', fetch[t].filter)
           moved  == (before \ after) \cup (after \ before)
<1>2. IsFiniteSet(before)
  BY <1>1, MatchingFinite
<1>3. IsFiniteSet(after)
  <2>1. ListingInv' => (\A filter \in Filters :
                           /\ IsFiniteSet(MatchingIn(users, filter))
                           /\ Cardinality(MatchingIn(users, filter)) \in Nat)'
    BY MatchingFinite, PTL
  <2>2. \A filter \in Filters : IsFiniteSet(MatchingIn(users', filter))
    BY <2>1 DEF MatchingIn
  <2>3. QED
    BY <1>1, <2>2
<1>4. IsFiniteSet(before \cup after)
  BY <1>2, <1>3, FS_Union
<1>5. moved \in SUBSET (before \cup after)
  OBVIOUS
<1>6. Cardinality(moved) \in Nat
  BY <1>4, <1>5, FS_Subset, FS_CardinalityType
<1>7. CASE ~Fetching(t)
  BY <1>1, <1>7 DEF Watched
<1>8. CASE Fetching(t)
  <2>1. fetch'[t] = [fetch[t] EXCEPT !.stayed = @ \cap after,
                                     !.churn = @ + Cardinality(moved)]
    BY <1>8 DEF Watched
  <2> HIDE DEF moved, after
  <2>2. fetch[t].stayed \cap after \in SUBSET Users /\ fetch[t].churn + Cardinality(moved) \in Nat
    BY <1>1, <1>6 DEF Fetch
  <2>3. QED
    BY <1>1, <2>1, <2>2 DEF Fetch
<1>9. QED
  BY <1>7, <1>8

(* A request that ends may have failed.                                    *)
LEMMA ReportTyped ==
    ASSUME report \in [Tabs -> {"none", "failed", "shown"}], NEW t \in Tabs,
           Refused(t) \/ Answered(t) \/ Replied(t) \/ report' = report
    PROVE  report' \in [Tabs -> {"none", "failed", "shown"}]
<1>1. CASE Refused(t)
  BY <1>1 DEF Refused
<1>2. CASE Answered(t) \/ report' = report
  BY <1>2 DEF Answered
<1>3. QED
  BY <1>1, <1>2 DEF Replied

(* What a creation owes the new user.                                      *)
LEMMA FollowUpTyped ==
    ASSUME NEW t \in Tabs
    PROVE  FollowUp(t) \in Follow
<1>1. \A rest : (\E i \in DOMAIN rest : rest[i].act = "extend") \in BOOLEAN
  OBVIOUS
<1>2. \A rest : (\E i \in DOMAIN rest : rest[i].act = "disable") \in BOOLEAN
  OBVIOUS
<1>3. QED
  BY <1>1, <1>2 DEF FollowUp, Follow

(* The initial state is typed.                                             *)
LEMMA RestInit == Init => RestTyped
<1> SUFFICES ASSUME Init PROVE RestTyped
  OBVIOUS
<1>1. /\ active_ips \in [Users -> [IPs -> DeviceRow \cup {Null}]]
      /\ report \in [Tabs -> {"none", "failed", "shown"}]
      /\ asked \in [Users -> Follow \cup {Null}]
  BY DEF Init
<1>2. fetch \in [Tabs -> Fetch]
  BY NoFetchTyped DEF Init
<1>3. clicks \in 0..MaxClicks
  BY ConsoleAssumption DEF Init, ConsoleAssumption
<1>4. QED
  BY <1>1, <1>2, <1>3 DEF RestTyped

(* A click.                                                                *)
LEMMA ClickTyped ==
    ASSUME RestTyped, NEW t \in Tabs, Click(t), fetch' \in [Tabs -> Fetch]
    PROVE  RestTyped'
<1>1. report' \in [Tabs -> {"none", "failed", "shown"}]
  BY DEF RestTyped, Click
<1>2. asked' \in [Users -> Follow \cup {Null}]
  BY DEF RestTyped, Click, histVars
<1>3. clicks' \in 0..MaxClicks
  BY ConsoleAssumption DEF RestTyped, Click, ConsoleAssumption
<1>4. active_ips' = active_ips
  BY DEF Click, storeVars
<1>5. QED
  BY <1>1, <1>2, <1>3, <1>4 DEF RestTyped

(* A step of a tab at its requests.                                        *)
LEMMA RequestTyped ==
    ASSUME ConsoleInv, AwaitedSent, ListingInv, ListingInv', RestTyped, NEW t \in Tabs,
           \/ RequestFails(t) \/ Create(t) \/ BeginExtend(t) \/ CommitExtend(t)
           \/ AbortExtend(t) \/ SetTag(t) \/ Disable(t) \/ Delete(t)
    PROVE  RestTyped'
<1>1. report' \in [Tabs -> {"none", "failed", "shown"}]
  <2>1. Refused(t) \/ Answered(t) \/ Replied(t) \/ report' = report
    BY DEF RequestFails, Create, BeginExtend, CommitExtend, AbortExtend, SetTag, Disable, Delete
  <2>2. QED
    BY <2>1, ReportTyped DEF RestTyped
<1>2. fetch' \in [Tabs -> Fetch]
  <2>1. fetch' = fetch \/ fetch' = Watched(users')
    BY DEF RequestFails, Create, BeginExtend, CommitExtend, AbortExtend, SetTag, Disable, Delete
  <2>2. QED
    BY <2>1, WatchedTyped DEF RestTyped
<1>3. clicks' = clicks
  BY DEF RequestFails, Create, BeginExtend, CommitExtend, AbortExtend, SetTag, Disable, Delete
<1>4. asked' \in [Users -> Follow \cup {Null}]
  <2>1. CASE Create(t)
    BY <2>1, FollowUpTyped DEF RestTyped, Create
  <2>2. CASE Delete(t)
    BY <2>2 DEF RestTyped, Delete
  <2>3. CASE ~Create(t) /\ ~Delete(t)
    <3>1. asked' = asked
      BY <2>3 DEF RequestFails, BeginExtend, CommitExtend, AbortExtend, SetTag, Disable, histVars
    <3>2. QED
      BY <3>1 DEF RestTyped
  <2>4. QED
    BY <2>1, <2>2, <2>3
<1>5. active_ips' \in [Users -> [IPs -> DeviceRow \cup {Null}]]
  <2>1. CASE Delete(t)
    BY <2>1 DEF RestTyped, Delete, DeleteUser
  <2>2. CASE ~Delete(t)
    <3>1. active_ips' = active_ips
      BY <2>2 DEF RequestFails, Create, CreateUser, BeginExtend, CommitExtend, AbortExtend,
         SetTag, Disable, SetUserStatus, UpdateUser, storeVars
    <3>2. QED
      BY <3>1 DEF RestTyped
  <2>3. QED
    BY <2>1, <2>2
<1>6. QED
  BY <1>1, <1>2, <1>3, <1>4, <1>5 DEF RestTyped

(* A failure that is shown, and what is forgotten when it no longer is, or *)
(* when the page is closed.                                                *)
LEMMA DisplayTyped ==
    ASSUME RestTyped, NEW t \in Tabs, Show(t) \/ Replaced(t) \/ Close(t)
    PROVE  RestTyped'
<1>1. report' \in [Tabs -> {"none", "failed", "shown"}]
  BY DEF RestTyped, Show, Replaced, Close
<1>2. asked' \in [Users -> Follow \cup {Null}]
  BY DEF RestTyped, Show, Replaced, Close, Forgotten, histVars
<1>3. fetch' \in [Tabs -> Fetch]
  BY NoFetchTyped DEF RestTyped, Show, Replaced, Close
<1>4. UNCHANGED <<active_ips, clicks>>
  BY DEF Show, Replaced, Close, storeVars
<1>5. QED
  BY <1>1, <1>2, <1>3, <1>4 DEF RestTyped

(* A step of an export.                                                    *)
LEMMA FetchTyped ==
    ASSUME ListingInv, RestTyped, NEW t \in Tabs,
           CountUsers(t) \/ SelectPage(t) \/ FetchFails(t)
    PROVE  RestTyped'
<1>1. fetch \in [Tabs -> Fetch] /\ fetch[t] \in Fetch /\ fetch[t].filter \in Filters
  BY DEF RestTyped, Fetch
<1>2. UNCHANGED <<active_ips, clicks, asked>>
  BY DEF CountUsers, SelectPage, FetchFails, storeVars, histVars
<1>3. CASE CountUsers(t)
  <2> DEFINE n == Cardinality(MatchingIn(users, fetch[t].filter))
  <2>1. n \in Nat
    BY <1>1, MatchingFinite
  <2>2. fetch' = [fetch EXCEPT ![t].step = "select", ![t].total = n]
    BY <1>3 DEF CountUsers
  <2> HIDE DEF n
  <2>3. [fetch[t] EXCEPT !.step = "select", !.total = n] \in Fetch
    BY <1>1, <2>1 DEF Fetch
  <2>4. fetch' \in [Tabs -> Fetch]
    BY <1>1, <2>2, <2>3
  <2>5. QED
    BY <1>2, <1>3, <2>4 DEF RestTyped, CountUsers
<1>4. CASE SelectPage(t)
  <2>1. PICK found \in Found(fetch[t].filter) :
          LET items == Page(found, fetch[t].offset, Limit(PageSize))
              all   == fetch[t].got \o items
              over  == Len(items) < PageSize \/ Len(all) >= fetch[t].total
          IN fetch' = [fetch EXCEPT
                         ![t].got = all,
                         ![t].step = IF over THEN "done" ELSE "count",
                         ![t].offset = IF over THEN @ ELSE @ + PageSize]
    BY <1>4 DEF SelectPage
  <2> DEFINE items == Page(found, fetch[t].offset, Limit(PageSize))
             all   == fetch[t].got \o items
             over  == Len(items) < PageSize \/ Len(all) >= fetch[t].total
             stop  == IF over THEN "done" ELSE "count"
             next  == IF over THEN fetch[t].offset ELSE fetch[t].offset + PageSize
  <2>2. fetch[t].offset \in Nat /\ fetch[t].got \in Seq(Users)
    BY <1>1 DEF Fetch
  <2>3. items \in Seq(Users)
    BY <2>2, FoundTyped, PageTyped, LimitTyped
  <2>4. all \in Seq(Users)
    BY <2>2, <2>3, ConcatProperties
  <2> HIDE DEF over
  <2>5. stop \in {"idle", "count", "select", "done"} /\ next \in Nat
    BY <2>2, LimitTyped
  <2>6. fetch' = [fetch EXCEPT ![t].got = all, ![t].step = stop, ![t].offset = next]
    BY <2>1 DEF over
  <2> HIDE DEF all, stop, next
  <2>7. [fetch[t] EXCEPT !.got = all, !.step = stop, !.offset = next] \in Fetch
    BY <1>1, <2>4, <2>5 DEF Fetch
  <2>8. fetch' \in [Tabs -> Fetch]
    BY <1>1, <2>6, <2>7
  <2>9. QED
    BY <1>2, <1>4, <2>8 DEF RestTyped, SelectPage
<1>5. CASE FetchFails(t)
  BY <1>1, <1>2, <1>5, NoFetchTyped DEF RestTyped, FetchFails
<1>6. QED
  BY <1>3, <1>4, <1>5

(* Every step keeps the types.                                             *)
LEMMA RestStep ==
    ASSUME ConsoleInv, AwaitedSent, ListingInv, ListingInv', RestTyped, [Next]_vars
    PROVE  RestTyped'
<1>1. ASSUME NEW t \in Tabs, NEW click \in Clicks, Submit(t, click)
      PROVE  RestTyped'
  <2>1. fetch' \in [Tabs -> Fetch]
    BY <1>1, NoFetchTyped DEF Submit, RestTyped
  <2>2. QED
    BY <1>1, <2>1, ClickTyped DEF Submit
<1>2. ASSUME NEW t \in Tabs, NEW filter \in Filters, StartFetch(t, filter)
      PROVE  RestTyped'
  <2> DEFINE begun == [NoFetch EXCEPT !.step = "count", !.filter = filter,
                                      !.stayed = MatchingIn(users, filter)]
  <2>1. MatchingIn(users, filter) \in SUBSET Users
    BY DEF MatchingIn
  <2>2. begun \in Fetch
    BY <2>1, NoFetchTyped DEF Fetch
  <2>3. fetch' = [fetch EXCEPT ![t] = begun]
    BY <1>2 DEF StartFetch
  <2> HIDE DEF begun
  <2>4. fetch' \in [Tabs -> Fetch]
    BY <2>2, <2>3 DEF RestTyped
  <2>5. QED
    BY <1>2, <2>4, ClickTyped DEF StartFetch
<1>3. CASE Tick \/ UNCHANGED vars
  BY <1>3 DEF Tick, tabVars, vars, storeVars, histVars, RestTyped
<1>4. QED
  BY <1>1, <1>2, <1>3, RequestTyped, FetchTyped, DisplayTyped DEF Next, TabStep

(* The invariants together, and that every step keeps them.                *)
AllInv == ConsoleInv /\ AwaitedSent /\ ListingInv /\ RestTyped

LEMMA AllInvariant == Spec => []AllInv
<1>1. Init => AllInv
  BY InitInv, ListingInit, RestInit DEF Init, AwaitedSent, AllInv
<1>2. AllInv /\ [Next]_vars => AllInv'
  <2> SUFFICES ASSUME AllInv, [Next]_vars PROVE AllInv'
    OBVIOUS
  <2>1. ConsoleInv' /\ AwaitedSent'
    BY NextInv, AwaitedStep DEF AllInv
  <2>2. ListingInv'
    BY ListingStep DEF AllInv
  <2>3. RestTyped'
    BY <2>2, RestStep DEF AllInv
  <2>4. QED
    BY <2>1, <2>2, <2>3 DEF AllInv
<1>3. QED
  BY <1>1, <1>2, PTL DEF Spec

(* Rows, requests, exports and histories keep their types, and ListUsers   *)
(* lists every user of the table exactly once, through every creation and  *)
(* deletion (store.go:711-784; the primary key of table users).            *)
THEOREM TypeCorrect == Spec => []TypeOK
<1>1. AllInv => TypeOK
  <2> SUFFICES ASSUME AllInv PROVE TypeOK
    OBVIOUS
  <2>1. StoreTypeOK
    BY DEF AllInv, ConsoleInv, ConsoleTyped, RestTyped, StoreTypeOK
  <2>2. /\ listing \in Seq(Users)
        /\ {listing[i] : i \in DOMAIN listing} = {u \in Users : Exists(u)}
        /\ Len(listing) = Cardinality({u \in Users : Exists(u)})
    BY ListingCounts DEF AllInv, ListingInv
  <2>3. QED
    BY <2>1, <2>2 DEF AllInv, ConsoleInv, ConsoleTyped, RestTyped, TypeOK
<1>2. QED
  BY <1>1, AllInvariant, PTL

-----------------------------------------------------------------------------
(* Creations.  NoSilentGap is not inductive: it does not say that the      *)
(* block a page is at still holds the request that is owed.                *)

(* The tab t still has to send a request of this kind about u.             *)
ToDo(t, u, act) ==
    /\ todo[t] # << >>
    /\ Target(t) = u
    /\ \E i \in DOMAIN Head(todo[t]) : Head(todo[t])[i].act = act

(* What was asked for u is done, or is going to be, or failed.             *)
Kept(u) ==
    LET ask == asked[u] IN
      \/ report[ask.by] # "none"
      \/ /\ ask.days => users[u].expires_at > 0 \/ ToDo(ask.by, u, "extend")
         /\ ask.off => users[u].status = 0 \/ ToDo(ask.by, u, "disable")

GapInv ==
    /\ \A u \in Users : Exists(u) /\ asked[u] # Null => Kept(u)
    /\ \A t \in Tabs : extending[t] # Null =>
         /\ extending[t].days > 0
         /\ extending[t].awaited => extending[t].user = Target(t)

(* What a row still has of what it had: a step may only add to it.         *)
Grows(u) ==
    /\ users[u].expires_at > 0 => users'[u].expires_at > 0
    /\ users[u].status = 0 => users'[u].status = 0

(* The rest of a block is sent next.                                       *)
LEMMA AnsweredHead ==
    ASSUME ConsoleTyped, NEW t \in Tabs, todo[t] # << >>, Answered(t),
           Len(Head(todo[t])) # 1
    PROVE  /\ todo'[t] # << >>
           /\ Head(todo'[t]) = Tail(Head(todo[t]))
<1>1. Head(todo[t]) \in Block /\ Tail(todo[t]) \in Seq(Block)
  BY SendingTyped
<1> DEFINE rest == Tail(Head(todo[t]))
<1>2. rest \in Block
  BY <1>1, BlockRest
<1>3. todo' = [todo EXCEPT ![t] = <<rest>> \o Tail(@)]
  BY DEF Answered
<1>4. todo'[t] = <<rest>> \o Tail(todo[t])
  BY <1>3 DEF ConsoleTyped
<1> HIDE DEF rest
<1>5. <<rest>> \in Seq(Block) /\ Len(<<rest>>) = 1 /\ <<rest>>[1] = rest
  BY <1>2
<1>6. /\ todo'[t] \in Seq(Block)
      /\ Len(todo'[t]) = 1 + Len(Tail(todo[t]))
      /\ todo'[t][1] = rest
  <2>1. Len(Tail(todo[t])) \in Nat
    BY <1>1, LenProperties
  <2>2. QED
    BY <1>1, <1>4, <1>5, <2>1, ConcatProperties
<1>7. Len(Tail(todo[t])) \in Nat
  BY <1>1, LenProperties
<1>8. todo'[t] # << >>
  BY <1>6, <1>7, EmptySeq
<1>9. QED
  BY <1>6, <1>8 DEF rest

(* A request that was answered is the only one that is no longer to do.    *)
LEMMA AnsweredToDo ==
    ASSUME ConsoleTyped, NEW t \in Tabs, Answered(t),
           NEW u \in Users, NEW act, ToDo(t, u, act), ~Sending(t, act)
    PROVE  ToDo(t, u, act)'
<1> DEFINE b == Head(todo[t])
<1>1. b \in Block /\ todo[t] # << >> /\ Target(t) = u
  BY SendingTyped DEF ToDo
<1>2. b \in Seq(Request) /\ Len(b) \in Nat /\ DOMAIN b = 1..Len(b) /\ Head(b) = b[1]
  BY <1>1, LenProperties DEF Block
<1>3. PICK i \in DOMAIN b : b[i].act = act
  BY DEF ToDo
<1>4. i # 1
  BY <1>1, <1>2, <1>3 DEF Sending
<1>5. Len(b) # 1
  BY <1>2, <1>4
<1>6. /\ i - 1 \in DOMAIN Tail(b)
      /\ Tail(b)[i - 1] = b[i - 1 + 1]
      /\ Head(Tail(b)).user = Head(b).user
  BY <1>1, <1>4, <1>5, BlockRest
<1>7. i - 1 + 1 = i
  BY <1>2
<1>8. todo'[t] # << >> /\ Head(todo'[t]) = Tail(b)
  BY <1>1, <1>5, AnsweredHead
<1>9. QED
  BY <1>1, <1>3, <1>6, <1>7, <1>8 DEF ToDo, Target

(* Steps that leave the tab of a creation alone, or show its failure.      *)
LEMMA KeptSame ==
    ASSUME NEW u \in Users, NEW s \in Tabs, asked[u].by = s, Kept(u),
           asked'[u] = asked[u], Grows(u), todo'[s] = todo[s],
           report[s] # "none" => report'[s] # "none"
    PROVE  Kept(u)'
BY DEF Kept, Grows, ToDo, Target

(* Steps that end a request, when they have done what was asked.           *)
LEMMA KeptReplied ==
    ASSUME ConsoleTyped, RestTyped, NEW t \in Tabs, todo[t] # << >>,
           Refused(t) \/ Answered(t) \/ Replied(t),
           NEW u \in Users, asked[u] # Null, Kept(u),
           asked'[u] = asked[u], Grows(u),
           Sending(t, "extend") /\ Target(t) = u => users'[u].expires_at > 0,
           Sending(t, "disable") /\ Target(t) = u => users'[u].status = 0
    PROVE  Kept(u)'
<1>1. PICK s \in Tabs : s = asked[u].by
  BY DEF RestTyped, Follow
<1>2. /\ todo \in [Tabs -> Seq(Block)]
      /\ report \in [Tabs -> {"none", "failed", "shown"}]
  BY DEF ConsoleTyped, RestTyped
<1>3. CASE Refused(t)
  <2>1. CASE s = t
    BY <1>1, <1>2, <1>3, <2>1 DEF Refused, Kept
  <2>2. CASE s # t
    <3>1. todo'[s] = todo[s] /\ report'[s] = report[s]
      BY <1>2, <1>3, <2>2 DEF Refused
    <3>2. QED
      BY <1>1, <3>1, KeptSame
  <2>3. QED
    BY <2>1, <2>2
<1>4. CASE Answered(t)
  <2>1. report' = report /\ \A r \in Tabs \ {t} : todo'[r] = todo[r]
    BY <1>2, <1>4 DEF Answered
  <2>2. CASE s # t
    BY <1>1, <2>1, <2>2, KeptSame
  <2>3. CASE s = t
    <3>1. CASE report[s] # "none"
      BY <1>1, <2>1, <3>1 DEF Kept
    <3>2. CASE report[s] = "none"
      <4>1. /\ asked[u].days => users[u].expires_at > 0 \/ ToDo(t, u, "extend")
            /\ asked[u].off => users[u].status = 0 \/ ToDo(t, u, "disable")
        BY <1>1, <2>3, <3>2 DEF Kept
      <4>2. ToDo(t, u, "extend") => users'[u].expires_at > 0 \/ ToDo(t, u, "extend")'
        BY <1>4, AnsweredToDo DEF ToDo
      <4>3. ToDo(t, u, "disable") => users'[u].status = 0 \/ ToDo(t, u, "disable")'
        BY <1>4, AnsweredToDo DEF ToDo
      <4>4. /\ asked[u].days => users'[u].expires_at > 0 \/ ToDo(t, u, "extend")'
            /\ asked[u].off => users'[u].status = 0 \/ ToDo(t, u, "disable")'
        BY <4>1, <4>2, <4>3 DEF Grows
      <4>5. asked'[u].by = t
        BY <1>1, <2>3
      <4>6. QED
        BY <4>4, <4>5 DEF Kept, ToDo, Target
    <3>3. QED
      BY <3>1, <3>2
  <2>4. QED
    BY <2>2, <2>3
<1>5. QED
  BY <1>3, <1>4 DEF Replied

(* The invariants the steps of a creation rest on.                         *)
Sound == AllInv /\ GapInv

(* The name a creation is remembered by is a tab.                          *)
LEMMA AskedBy ==
    ASSUME RestTyped, NEW u \in Users, asked[u] # Null
    PROVE  asked[u].by \in Tabs
BY DEF RestTyped, Follow

(* An extension at work is about a user, and its days are counted.         *)
LEMMA CommitRaises ==
    ASSUME Sound, NEW t \in Tabs, extending[t] # Null
    PROVE  /\ extending[t] \in Extension
           /\ extending[t].user \in Users
           /\ NextExpiry(extending[t]) \in Nat
           /\ NextExpiry(extending[t]) > 0
<1> DEFINE e == extending[t]
<1>1. e \in Extension /\ e.user \in Users
  BY DEF Sound, AllInv, ConsoleInv, ConsoleTyped, Extension
<1>2. e.days \in Nat \ {0} /\ e.base \in Nat /\ e.now \in Nat
  BY <1>1 DEF Sound, GapInv, Extension
<1>3. Day \in Nat \ {0}
  BY ConsoleAssumption DEF ConsoleAssumption
<1>4. \A x, y \in Nat \ {0} : x * y \in Nat \ {0}
  OBVIOUS
<1> DEFINE k == e.days * Day
<1>5. k \in Nat \ {0}
  BY <1>2, <1>3, <1>4
<1>6. NextExpiry(e) = Larger(e.base, e.now) + k
  BY DEF NextExpiry
<1> HIDE DEF k, e
<1>7. NextExpiry(e) \in Nat /\ NextExpiry(e) > 0
  BY <1>2, <1>5, <1>6 DEF Larger
<1>8. QED
  BY <1>1, <1>7 DEF e

(* A click starts when nothing is left to do, or to show.                  *)
LEMMA ClickGap ==
    ASSUME Sound, NEW t \in Tabs, Click(t), \A s \in Tabs \ {t} : todo'[s] = todo[s]
    PROVE  GapInv'
<1>1. ASSUME NEW u \in Users, users'[u] # Null, asked'[u] # Null
      PROVE  Kept(u)'
  <2>1. users' = users /\ asked'[u] = asked[u] /\ asked[u] # Null
    BY <1>1 DEF Click, storeVars, histVars
  <2>2. PICK s \in Tabs : s = asked[u].by
    BY <2>1, AskedBy DEF Sound, AllInv
  <2>3. Kept(u) /\ Grows(u)
    BY <1>1, <2>1 DEF Sound, GapInv, Exists, Grows
  <2>4. CASE s # t
    <3>1. report'[s] = report[s] /\ todo'[s] = todo[s]
      BY <2>4 DEF Click
    <3>2. QED
      BY <2>1, <2>2, <2>3, <3>1, KeptSame
  <2>5. CASE s = t
    <3>1. report[t] = "none" /\ todo[t] = << >>
      BY DEF Click, AtWork
    <3>2. /\ asked[u].days => users[u].expires_at > 0
          /\ asked[u].off => users[u].status = 0
      BY <2>2, <2>3, <2>5, <3>1 DEF Kept, ToDo
    <3>3. QED
      BY <2>1, <3>2 DEF Kept
  <2>6. QED
    BY <2>4, <2>5
<1>2. ASSUME NEW s \in Tabs, extending'[s] # Null
      PROVE  /\ extending'[s].days > 0
             /\ extending'[s].awaited => extending'[s].user = Target(s)'
  <2>1. extending' = extending
    BY DEF Click
  <2>2. extending[s].awaited => s # t
    BY <1>2, <2>1 DEF Sound, AllInv, AwaitedSent, Sending, Click, AtWork
  <2>3. QED
    BY <1>2, <2>1, <2>2 DEF Sound, GapInv, Target
<1>3. QED
  BY <1>1, <1>2 DEF GapInv, Exists

(* The part of GapInv about extensions, when none begins.                  *)
LEMMA ExtendingGap ==
    ASSUME Sound, NEW t \in Tabs, \A s \in Tabs \ {t} : todo'[s] = todo[s],
           \/ extending' = extending /\ (todo'[t] = todo[t] \/ ~Sending(t, "extend"))
           \/ /\ \E u \in Users : extending' = Overtaken(u)
              /\ ~Sending(t, "extend")
           \/ extending' = [extending EXCEPT ![t] = Null]
           \/ extending[t] # Null /\ extending' = [extending EXCEPT ![t].awaited = FALSE]
    PROVE  \A s \in Tabs : extending'[s] # Null =>
             /\ extending'[s].days > 0
             /\ extending'[s].awaited => extending'[s].user = Target(s)'
<1> SUFFICES ASSUME NEW s \in Tabs, extending'[s] # Null
             PROVE  /\ extending'[s].days > 0
                    /\ extending'[s].awaited => extending'[s].user = Target(s)'
  OBVIOUS
<1>1. extending \in [Tabs -> Extension \cup {Null}]
  BY DEF Sound, AllInv, ConsoleInv, ConsoleTyped
<1>0. ASSUME NEW u \in Users, extending' = Overtaken(u), ~Sending(t, "extend")
      PROVE  /\ extending'[s].days > 0
             /\ extending'[s].awaited => extending'[s].user = Target(s)'
  <2>1. /\ extending[s] # Null
        /\ extending'[s].user = extending[s].user
        /\ extending'[s].days = extending[s].days
        /\ extending'[s].awaited => extending[s].awaited
    BY <1>0, OvertakenTyped DEF Sound, AllInv, ConsoleInv
  <2>2. extending[s].awaited => s # t
    BY <1>0, <2>1 DEF Sound, AllInv, AwaitedSent
  <2>3. extending[s].awaited => todo'[s] = todo[s]
    BY <2>2
  <2>4. QED
    BY <2>1, <2>3 DEF Sound, GapInv, Target
<1>. SUFFICES ASSUME ~((\E u \in Users : extending' = Overtaken(u)) /\ ~Sending(t, "extend"))
     PROVE  /\ extending'[s].days > 0
            /\ extending'[s].awaited => extending'[s].user = Target(s)'
  BY <1>0
<1>2. CASE s # t
  <2>1. extending'[s] = extending[s] /\ todo'[s] = todo[s]
    BY <1>1, <1>2
  <2>2. QED
    BY <2>1 DEF Sound, GapInv, Target
<1>3. CASE s = t
  <2>1. CASE extending' = extending /\ (todo'[t] = todo[t] \/ ~Sending(t, "extend"))
    <3>1. extending[t].awaited => todo'[t] = todo[t]
      BY <1>3, <2>1 DEF Sound, AllInv, AwaitedSent
    <3>2. QED
      BY <1>3, <2>1, <3>1 DEF Sound, GapInv, Target
  <2>2. CASE extending' = [extending EXCEPT ![t] = Null]
    BY <1>1, <1>3, <2>2
  <2>3. CASE extending[t] # Null /\ extending' = [extending EXCEPT ![t].awaited = FALSE]
    <3>1. extending'[t] = [extending[t] EXCEPT !.awaited = FALSE]
      BY <1>1, <2>3
    <3>2. extending[t] \in Extension
      BY <1>1, <2>3
    <3>3. extending'[t].days = extending[t].days /\ extending'[t].awaited = FALSE
      BY <3>1, <3>2 DEF Extension
    <3>4. QED
      BY <1>3, <2>3, <3>3 DEF Sound, GapInv
  <2>4. QED
    BY <2>1, <2>2, <2>3
<1>4. QED
  BY <1>2, <1>3

(* The other tabs' requests are not touched.                               *)
LEMMA OthersToDo ==
    ASSUME todo \in [Tabs -> Seq(Block)], NEW t \in Tabs,
           Refused(t) \/ Answered(t) \/ Replied(t)
    PROVE  \A s \in Tabs \ {t} : todo'[s] = todo[s]
<1>1. CASE Refused(t)
  BY <1>1 DEF Refused
<1>2. CASE Answered(t)
  BY <1>2 DEF Answered
<1>3. QED
  BY <1>1, <1>2 DEF Replied

(* The same for an extension nobody waits for any more.                    *)
LEMMA UnawaitedGap ==
    ASSUME Sound, NEW t \in Tabs, \A s \in Tabs \ {t} : todo'[s] = todo[s],
           extending' = Unawaited(t)
    PROVE  \A s \in Tabs : extending'[s] # Null =>
             /\ extending'[s].days > 0
             /\ extending'[s].awaited => extending'[s].user = Target(s)'
<1>1. CASE extending[t] # Null
  BY <1>1, ExtendingGap DEF Unawaited
<1>2. CASE extending[t] = Null
  <2>1. extending' = extending
    BY <1>2 DEF Unawaited
  <2>2. extending' = [extending EXCEPT ![t] = Null]
    BY <1>2, <2>1 DEF Sound, AllInv, ConsoleInv, ConsoleTyped
  <2>3. QED
    BY <2>2, ExtendingGap
<1>3. QED
  BY <1>1, <1>2

(* What is forgotten when a failure is no longer shown, or when a page is  *)
(* closed, are the users not as asked; the others stay so.                 *)
LEMMA ForgottenGap ==
    ASSUME Sound, NEW t \in Tabs, Replaced(t) \/ Close(t)
    PROVE  GapInv'
<1>1. users' = users /\ asked' = Forgotten(t)
  BY DEF Replaced, Close, storeVars
<1>2. \A s \in Tabs \ {t} : todo'[s] = todo[s] /\ report'[s] = report[s]
  BY DEF Replaced, Close, Sound, AllInv, ConsoleInv, ConsoleTyped, RestTyped
<1>3. ASSUME NEW u \in Users, users'[u] # Null, asked'[u] # Null
      PROVE  Kept(u)'
  <2>1. /\ asked'[u] = asked[u] /\ asked[u] # Null
        /\ asked[u].by = t => AsAsked(u)
    BY <1>1, <1>3 DEF Forgotten, Exists
  <2>2. PICK s \in Tabs : s = asked[u].by
    BY <2>1, AskedBy DEF Sound, AllInv
  <2>3. Kept(u) /\ Grows(u)
    BY <1>1, <1>3, <2>1 DEF Sound, GapInv, Exists, Grows
  <2>4. CASE s # t
    BY <1>2, <2>1, <2>2, <2>3, <2>4, KeptSame
  <2>5. CASE s = t
    BY <1>1, <2>1, <2>2, <2>5 DEF Kept, AsAsked
  <2>6. QED
    BY <2>4, <2>5
<1>4. \A s \in Tabs : extending'[s] # Null =>
        /\ extending'[s].days > 0
        /\ extending'[s].awaited => extending'[s].user = Target(s)'
  <2>1. CASE Replaced(t)
    BY <1>2, <2>1, ExtendingGap DEF Replaced
  <2>2. CASE Close(t)
    BY <1>2, <2>2, UnawaitedGap DEF Close
  <2>3. QED
    BY <2>1, <2>2
<1>5. QED
  BY <1>3, <1>4 DEF GapInv, Exists

(* A request that fails is shown.                                          *)
LEMMA RequestFailsGap ==
    ASSUME Sound, NEW t \in Tabs, RequestFails(t)
    PROVE  GapInv'
<1>1. users' = users /\ asked' = asked /\ Refused(t) /\ todo[t] # << >>
  BY DEF RequestFails, storeVars, histVars
<1>2. \A s \in Tabs \ {t} : todo'[s] = todo[s]
  BY <1>1, OthersToDo DEF Sound, AllInv, ConsoleInv, ConsoleTyped
<1>3. ASSUME NEW u \in Users, users'[u] # Null, asked'[u] # Null
      PROVE  Kept(u)'
  <2>1. Kept(u) /\ Grows(u)
    BY <1>1, <1>3 DEF Sound, GapInv, Exists, Grows
  <2>2. PICK s \in Tabs : s = asked[u].by
    BY <1>1, <1>3, AskedBy DEF Sound, AllInv
  <2>3. CASE s = t
    BY <1>1, <2>2, <2>3 DEF Kept, Refused, Sound, AllInv, RestTyped
  <2>4. CASE s # t
    <3>1. report'[s] = report[s]
      BY <1>1, <2>4 DEF Refused, Sound, AllInv, RestTyped
    <3>2. QED
      BY <1>1, <1>2, <2>1, <2>2, <2>4, <3>1, KeptSame
  <2>5. QED
    BY <2>3, <2>4
<1>4. \A s \in Tabs : extending'[s] # Null =>
        /\ extending'[s].days > 0
        /\ extending'[s].awaited => extending'[s].user = Target(s)'
  <2>1. extending' = Unawaited(t)
    BY DEF RequestFails
  <2>2. QED
    BY <1>2, <2>1, UnawaitedGap
<1>5. QED
  BY <1>3, <1>4 DEF GapInv, Exists

(* What follows a creation in its block is owed to the new user.           *)
LEMMA CreateGap ==
    ASSUME Sound, NEW t \in Tabs, Create(t)
    PROVE  GapInv'
<1> DEFINE b == Head(todo[t])
<1>0. Target(t) \in Users
  BY SendingTyped DEF Create, Sending, Sound, AllInv, ConsoleInv
<1>. PICK x \in Users : x = Target(t)
  BY <1>0
<1>1. /\ todo[t] # << >> /\ x = Target(t) /\ b \in Block /\ Amount(t) \in Nat
      /\ ~Sending(t, "extend") /\ ~Sending(t, "disable")
  BY SendingTyped DEF Create, Sending, Sound, AllInv, ConsoleInv
<1>2. PICK pw \in Secrets : users' = [users EXCEPT ![x] = NewRow(pw, Amount(t), 0, 1)]
  BY DEF Create, CreateUser
<1>3. Replied(t) /\ asked' = [asked EXCEPT ![x] = FollowUp(t)] /\ extending' = Overtaken(x)
  BY DEF Create
<1>4. \A s \in Tabs \ {t} : todo'[s] = todo[s]
  BY <1>3, OthersToDo DEF Sound, AllInv, ConsoleInv, ConsoleTyped
<1>5. ASSUME NEW u \in Users, u # x, users'[u] # Null, asked'[u] # Null
      PROVE  Kept(u)'
  <2>1. users'[u] = users[u] /\ asked'[u] = asked[u]
    BY <1>1, <1>2, <1>3, <1>5 DEF Sound, AllInv, ConsoleInv, ConsoleTyped, RestTyped
  <2>2. Kept(u) /\ Grows(u)
    BY <1>5, <2>1 DEF Sound, GapInv, Exists, Grows
  <2>3. QED
    BY <1>1, <1>3, <1>5, <2>1, <2>2, KeptReplied DEF Sound, AllInv, ConsoleInv
<1>6. Kept(x)'
  <2>1. asked'[x] = FollowUp(t) /\ asked'[x].by = t
    BY <1>1, <1>3 DEF Sound, AllInv, RestTyped, FollowUp
  <2>2. CASE Refused(t)
    BY <2>1, <2>2 DEF Refused, Kept, Sound, AllInv, RestTyped
  <2>3. CASE Answered(t)
    <3>1. CASE Len(b) = 1
      <4>1. Len(Tail(b)) = 0 /\ Tail(b) \in Seq(Request)
        BY <1>1, <3>1, HeadTailProperties DEF Block
      <4>2. DOMAIN Tail(b) = 1..0
        BY <4>1, LenProperties
      <4>3. ~FollowUp(t).days /\ ~FollowUp(t).off
        BY <4>2 DEF FollowUp
      <4>4. QED
        BY <2>1, <4>3 DEF Kept
    <3>2. CASE Len(b) # 1
      <4>1. todo'[t] # << >> /\ Head(todo'[t]) = Tail(b)
        BY <1>1, <2>3, <3>2, AnsweredHead DEF Sound, AllInv, ConsoleInv
      <4>2. Head(Tail(b)).user = x
        BY <1>1, <3>2, BlockRest DEF Target
      <4>3. FollowUp(t).days => ToDo(t, x, "extend")'
        BY <4>1, <4>2 DEF FollowUp, ToDo, Target
      <4>4. FollowUp(t).off => ToDo(t, x, "disable")'
        BY <4>1, <4>2 DEF FollowUp, ToDo, Target
      <4>5. QED
        BY <2>1, <4>3, <4>4 DEF Kept
    <3>3. QED
      BY <3>1, <3>2
  <2>4. QED
    BY <1>3, <2>2, <2>3 DEF Replied
<1>7. \A s \in Tabs : extending'[s] # Null =>
        /\ extending'[s].days > 0
        /\ extending'[s].awaited => extending'[s].user = Target(s)'
  BY <1>1, <1>3, <1>4, ExtendingGap
<1>8. ASSUME NEW u \in Users, users'[u] # Null, asked'[u] # Null
      PROVE  Kept(u)'
  BY <1>5, <1>6, <1>8
<1>9. QED
  BY <1>7, <1>8 DEF GapInv, Exists

(* A deletion ends what was owed to the user.                              *)
LEMMA DeleteGap ==
    ASSUME Sound, NEW t \in Tabs, Delete(t)
    PROVE  GapInv'
<1>0. Target(t) \in Users
  BY SendingTyped DEF Delete, Sending, Sound, AllInv, ConsoleInv
<1>. PICK x \in Users : x = Target(t)
  BY <1>0
<1>1. /\ todo[t] # << >> /\ ~Sending(t, "extend") /\ ~Sending(t, "disable")
  BY DEF Delete, Sending
<1>2. /\ users' = [users EXCEPT ![x] = Null]
      /\ asked' = [asked EXCEPT ![x] = Null]
      /\ extending' = extending
      /\ Replied(t)
  BY DEF Delete, DeleteUser
<1>3. \A s \in Tabs \ {t} : todo'[s] = todo[s]
  BY <1>2, OthersToDo DEF Sound, AllInv, ConsoleInv, ConsoleTyped
<1>4. ASSUME NEW u \in Users, users'[u] # Null, asked'[u] # Null
      PROVE  Kept(u)'
  <2>1. u # x /\ users'[u] = users[u] /\ asked'[u] = asked[u]
    BY <1>2, <1>4 DEF Sound, AllInv, ConsoleInv, ConsoleTyped, RestTyped
  <2>2. Kept(u) /\ Grows(u)
    BY <1>4, <2>1 DEF Sound, GapInv, Exists, Grows
  <2>3. QED
    BY <1>1, <1>2, <1>4, <2>1, <2>2, KeptReplied DEF Sound, AllInv, ConsoleInv
<1>5. \A s \in Tabs : extending'[s] # Null =>
        /\ extending'[s].days > 0
        /\ extending'[s].awaited => extending'[s].user = Target(s)'
  BY <1>1, <1>2, <1>3, ExtendingGap
<1>6. QED
  BY <1>4, <1>5 DEF GapInv, Exists

(* The tag decides nothing; a disabled user has what it was owed.          *)
LEMMA ReplyGap ==
    ASSUME Sound, NEW t \in Tabs, SetTag(t) \/ Disable(t)
    PROVE  GapInv'
<1>0. Target(t) \in Users
  BY SendingTyped DEF SetTag, Disable, Sending, Sound, AllInv, ConsoleInv
<1>. PICK x \in Users : x = Target(t)
  BY <1>0
<1>1. todo[t] # << >> /\ ~Sending(t, "extend") /\ (Sending(t, "disable") => Disable(t))
  BY DEF SetTag, Disable, Sending
<1>2. asked' = asked /\ extending' = extending /\ Replied(t)
  BY DEF SetTag, Disable, histVars
<1>3. \A s \in Tabs \ {t} : todo'[s] = todo[s]
  BY <1>2, OthersToDo DEF Sound, AllInv, ConsoleInv, ConsoleTyped
<1>4. ASSUME NEW u \in Users, users'[u] # Null
      PROVE  /\ users[u] # Null
             /\ Grows(u)
             /\ Disable(t) /\ u = x => users'[u].status = 0
  <2>1. CASE users' = users /\ ~(Disable(t) /\ u = x)
    BY <1>4, <2>1 DEF Grows
  <2>2. CASE Disable(t) /\ u = x
    <3>1. Exists(u)
      BY <1>4, <2>2 DEF Disable, storeVars, Exists
    <3>2. users[u] \in UserRow
      BY <3>1, RowTyped DEF Sound, AllInv, ConsoleInv
    <3>3. users' = [users EXCEPT ![u] = [users[u] EXCEPT !.status = 0]]
      BY <2>2, <3>1 DEF Disable, SetUserStatus, UpdateUser
    <3>4. users'[u] = [users[u] EXCEPT !.status = 0]
      BY <3>3 DEF Sound, AllInv, ConsoleInv, ConsoleTyped
    <3>5. users'[u].status = 0 /\ users'[u].expires_at = users[u].expires_at
      BY <3>2, <3>4 DEF UserRow
    <3>6. QED
      BY <3>1, <3>5 DEF Grows, Exists
  <2>3. CASE Disable(t) /\ u # x
    <3>1. users'[u] = users[u]
      <4>1. CASE Exists(x)
        BY <2>3, <4>1 DEF Disable, SetUserStatus, UpdateUser, Sound, AllInv, ConsoleInv,
           ConsoleTyped
      <4>2. CASE ~Exists(x)
        BY <2>3, <4>2 DEF Disable, storeVars
      <4>3. QED
        BY <4>1, <4>2
    <3>2. QED
      BY <1>4, <2>3, <3>1 DEF Grows
  <2>4. Disable(t) \/ users' = users
    BY DEF SetTag, storeVars
  <2>5. CASE ~Disable(t)
    BY <2>1, <2>4, <2>5
  <2>6. QED
    BY <2>2, <2>3, <2>5
<1>5. ASSUME NEW u \in Users, users'[u] # Null, asked'[u] # Null
      PROVE  Kept(u)'
  <2>1. Grows(u) /\ asked'[u] = asked[u] /\ asked[u] # Null /\ Kept(u)
    BY <1>2, <1>4, <1>5 DEF Sound, GapInv, Exists
  <2>2. Sending(t, "disable") /\ Target(t) = u => users'[u].status = 0
    BY <1>1, <1>4, <1>5
  <2>3. QED
    BY <1>1, <1>2, <2>1, <2>2, KeptReplied DEF Sound, AllInv, ConsoleInv
<1>6. \A s \in Tabs : extending'[s] # Null =>
        /\ extending'[s].days > 0
        /\ extending'[s].awaited => extending'[s].user = Target(s)'
  BY <1>1, <1>2, <1>3, ExtendingGap
<1>7. QED
  BY <1>5, <1>6 DEF GapInv, Exists

(* An extension that begins is the one of the block.                       *)
LEMMA BeginExtendGap ==
    ASSUME Sound, NEW t \in Tabs, BeginExtend(t)
    PROVE  GapInv'
<1>1. UNCHANGED <<users, todo, report, asked>>
  BY DEF BeginExtend, storeVars, histVars
<1>2. ASSUME NEW u \in Users, users'[u] # Null, asked'[u] # Null
      PROVE  Kept(u)'
  BY <1>1, <1>2 DEF Sound, GapInv, Exists, Kept, ToDo, Target
<1>3. ASSUME NEW s \in Tabs, extending'[s] # Null
      PROVE  /\ extending'[s].days > 0
             /\ extending'[s].awaited => extending'[s].user = Target(s)'
  <2>1. PICK now \in Larger(0, clock - MaxWait)..clock :
          extending' = [extending EXCEPT ![t] =
                          [user |-> Target(t), days |-> Amount(t), now |-> now,
                           base |-> users[Target(t)].expires_at, awaited |-> TRUE,
                           overtaken |-> FALSE]]
    BY DEF BeginExtend
  <2>2. CASE s = t
    <3>1. extending'[s].user = Target(t) /\ extending'[s].days = Amount(t)
      BY <2>1, <2>2 DEF Sound, AllInv, ConsoleInv, ConsoleTyped
    <3>2. QED
      BY <1>1, <2>2, <3>1 DEF BeginExtend, Target
  <2>3. CASE s # t
    <3>1. extending'[s] = extending[s]
      BY <2>1, <2>3 DEF Sound, AllInv, ConsoleInv, ConsoleTyped
    <3>2. QED
      BY <1>1, <1>3, <3>1 DEF Sound, GapInv, Target
  <2>4. QED
    BY <2>2, <2>3
<1>4. QED
  BY <1>2, <1>3 DEF GapInv, Exists

(* An extension that ends has done its part, or its tab shows it did not.  *)
LEMMA EndExtendGap ==
    ASSUME Sound, NEW t \in Tabs, CommitExtend(t) \/ AbortExtend(t)
    PROVE  GapInv'
<1> DEFINE e == extending[t]
<1>1. e # Null /\ asked' = asked /\ extending' = [extending EXCEPT ![t] = Null]
  BY DEF CommitExtend, AbortExtend, histVars
<1>2. e \in Extension /\ e.user \in Users /\ NextExpiry(e) \in Nat /\ NextExpiry(e) > 0
  BY <1>1, CommitRaises
<1>. PICK x \in Users : x = e.user
  BY <1>2
<1>3. e.awaited => Sending(t, "extend") /\ Target(t) = x
  BY <1>1 DEF Sound, AllInv, AwaitedSent, GapInv
<1>4. IF e.awaited THEN (Replied(t) \/ Refused(t)) /\ todo[t] # << >>
                   ELSE todo' = todo /\ report' = report
  BY <1>3 DEF CommitExtend, AbortExtend, Sending
<1>5. \A s \in Tabs \ {t} : todo'[s] = todo[s]
  BY <1>4, OthersToDo DEF Sound, AllInv, ConsoleInv, ConsoleTyped
<1>6. ASSUME NEW u \in Users, users'[u] # Null
      PROVE  /\ users[u] # Null
             /\ Grows(u)
             /\ CommitExtend(t) /\ u = x => users'[u].expires_at > 0
  <2>1. CASE CommitExtend(t)
    <3> DEFINE k == NextExpiry(e)
    <3>1. users' = IF Exists(x) THEN [users EXCEPT ![x].expires_at = k] ELSE users
      BY <2>1 DEF CommitExtend
    <3>2. k \in Nat /\ k > 0
      BY <1>2
    <3> HIDE DEF k, e
    <3>3. CASE u = x /\ Exists(x)
      <4>1. users[u] \in UserRow
        BY <3>3, RowTyped DEF Sound, AllInv, ConsoleInv
      <4>2. users'[u] = [users[u] EXCEPT !.expires_at = k]
        BY <3>1, <3>3 DEF Sound, AllInv, ConsoleInv, ConsoleTyped
      <4>3. users'[u].expires_at = k /\ users'[u].status = users[u].status
        BY <4>1, <4>2 DEF UserRow
      <4>4. QED
        BY <3>2, <3>3, <4>3 DEF Grows, Exists
    <3>4. CASE ~(u = x /\ Exists(x))
      <4>1. users'[u] = users[u]
        BY <3>1, <3>4 DEF Sound, AllInv, ConsoleInv, ConsoleTyped
      <4>2. QED
        BY <1>6, <3>4, <4>1 DEF Grows, Exists
    <3>5. QED
      BY <3>3, <3>4
  <2>2. CASE ~CommitExtend(t)
    <3>1. users' = users
      BY <2>2 DEF AbortExtend, storeVars
    <3>2. QED
      BY <1>6, <2>2, <3>1 DEF Grows
  <2>3. QED
    BY <2>1, <2>2
<1>7. ASSUME NEW u \in Users, users'[u] # Null, asked'[u] # Null
      PROVE  Kept(u)'
  <2>1. Grows(u) /\ asked'[u] = asked[u] /\ asked[u] # Null /\ Kept(u)
    BY <1>1, <1>6, <1>7 DEF Sound, GapInv, Exists
  <2>2. PICK s \in Tabs : s = asked[u].by
    BY <2>1, AskedBy DEF Sound, AllInv
  <2>3. CASE ~e.awaited
    BY <1>4, <2>1, <2>2, <2>3, KeptSame
  <2>4. CASE e.awaited /\ CommitExtend(t)
    <3>1. Sending(t, "extend") /\ Target(t) = u => users'[u].expires_at > 0
      BY <1>3, <1>6, <1>7, <2>4
    <3>2. ~Sending(t, "disable")
      BY <1>3, <2>4 DEF Sending
    <3>3. QED
      BY <1>4, <2>1, <2>4, <3>1, <3>2, KeptReplied DEF Sound, AllInv, ConsoleInv
  <2>5. CASE e.awaited /\ ~CommitExtend(t)
    <3>1. Refused(t)
      BY <2>5 DEF AbortExtend
    <3>2. report'[t] # "none" /\ (s # t => report'[s] = report[s] /\ todo'[s] = todo[s])
      BY <1>5, <3>1 DEF Refused, Sound, AllInv, RestTyped
    <3>3. CASE s = t
      BY <2>1, <2>2, <3>2, <3>3 DEF Kept
    <3>4. CASE s # t
      BY <2>1, <2>2, <3>2, <3>4, KeptSame
    <3>5. QED
      BY <3>3, <3>4
  <2>6. QED
    BY <2>3, <2>4, <2>5
<1>8. \A s \in Tabs : extending'[s] # Null =>
        /\ extending'[s].days > 0
        /\ extending'[s].awaited => extending'[s].user = Target(s)'
  BY <1>1, <1>5, ExtendingGap
<1>9. QED
  BY <1>7, <1>8 DEF GapInv, Exists

(* Steps that touch neither rows nor requests.                             *)
LEMMA QuietGap ==
    ASSUME Sound, UNCHANGED <<users, todo, extending, asked>>,
           \A s \in Tabs : report[s] # "none" => report'[s] # "none"
    PROVE  GapInv'
<1>1. ASSUME NEW u \in Users, users'[u] # Null, asked'[u] # Null
      PROVE  Kept(u)'
  <2>1. Kept(u) /\ Grows(u) /\ asked'[u] = asked[u] /\ asked[u] # Null
    BY <1>1 DEF Sound, GapInv, Exists, Grows
  <2>2. PICK s \in Tabs : s = asked[u].by
    BY <2>1, AskedBy DEF Sound, AllInv
  <2>3. QED
    BY <2>1, <2>2, KeptSame
<1>2. QED
  BY <1>1 DEF Sound, GapInv, Exists, Target

(* Every step keeps the invariant.                                         *)
LEMMA GapStep ==
    ASSUME Sound, [Next]_vars
    PROVE  GapInv'
<1>1. ASSUME NEW t \in Tabs, NEW click \in Clicks, Submit(t, click)
      PROVE  GapInv'
  BY <1>1, ClickGap DEF Submit, Sound, AllInv, ConsoleInv, ConsoleTyped
<1>2. ASSUME NEW t \in Tabs, NEW filter \in Filters, StartFetch(t, filter)
      PROVE  GapInv'
  BY <1>2, ClickGap DEF StartFetch
<1>3. ASSUME NEW t \in Tabs, CountUsers(t) \/ SelectPage(t) \/ FetchFails(t) \/ Show(t)
      PROVE  GapInv'
  <2>1. UNCHANGED <<users, todo, extending, asked>>
    BY <1>3 DEF CountUsers, SelectPage, FetchFails, Show, storeVars, histVars
  <2>2. \A s \in Tabs : report[s] # "none" => report'[s] # "none"
    BY <1>3 DEF CountUsers, SelectPage, FetchFails, Show, Sound, AllInv, RestTyped
  <2>3. QED
    BY <2>1, <2>2, QuietGap
<1>4. CASE Tick \/ UNCHANGED vars
  BY <1>4, QuietGap DEF Tick, vars, tabVars, storeVars, histVars
<1>5. QED
  BY <1>1, <1>2, <1>3, <1>4, RequestFailsGap, CreateGap, DeleteGap, ReplyGap,
     BeginExtendGap, EndExtendGap, ForgottenGap DEF Next, TabStep

(* However the requests of several pages interleave and fail: a user that  *)
(* was created to be extended or disabled is so, or the page that created  *)
(* it is still at it, or has counted or shows a failure; unless that page  *)
(* was closed in the midst, or what it showed was replaced meanwhile       *)
(* (ui.go:1536-1572 and 2152-2190).                                        *)
THEOREM GapsAreShown == Spec => []NoSilentGap
<1>1. Init => Sound
  <2>1. Init => AllInv
    BY InitInv, ListingInit, RestInit DEF Init, AwaitedSent, AllInv
  <2>2. Init => GapInv
    BY DEF Init, GapInv
  <2>3. QED
    BY <2>1, <2>2 DEF Sound
<1>2. Sound /\ AllInv' /\ [Next]_vars => Sound'
  BY GapStep DEF Sound
<1>3. Sound => NoSilentGap
  BY DEF Sound, GapInv, NoSilentGap, AsAsked, Kept, ToDo
<1>4. QED
  BY AllInvariant, <1>1, <1>2, <1>3, PTL DEF Spec

-----------------------------------------------------------------------------
(* Exports.  ExportNearlyComplete is only about the end of an export; the  *)
(* invariant says of one on its way which users it has lost already and    *)
(* which it is going to repeat, by their places among the rows it lists.   *)

(* v is no later than u in the listing.                                    *)
Before(list, v, u) == \E i, j \in DOMAIN list : i <= j /\ list[i] = v /\ list[j] = u

Upto(list, S, u) == {v \in S : Before(list, v, u)}

(* The place of u among the members of S, the first being 1.               *)
Rank(list, S, u) == Cardinality(Upto(list, S, u))

Members(s) == {s[i] : i \in DOMAIN s}

Seen(f) == Members(f.got)

(* Users the pages so far should have had, and users a page to come has    *)
(* again.                                                                  *)
Missed(list, S, f) == {u \in f.stayed \ Seen(f) : Rank(list, S, u) <= f.offset}

Ahead(list, S, f) == {u \in S \cap Seen(f) : Rank(list, S, u) > f.offset}

(* Of the changes under an export, n were arrivals: only these can have    *)
(* made it repeat a row, and only the others lose one.                     *)
Tracked(list, S, f) ==
    /\ f.stayed \subseteq S
    /\ f.offset = Len(f.got)
    /\ \E n \in 0..f.churn :
         /\ Cardinality(Missed(list, S, f)) <= f.churn - n
         /\ Len(f.got) - Cardinality(Seen(f)) + Cardinality(Ahead(list, S, f)) <= n
         /\ f.step = "select" => Cardinality(S) - f.total <= n

Complete(f) ==
    /\ Cardinality(f.stayed \ Seen(f)) <= f.churn
    /\ Len(f.got) - Cardinality(Seen(f)) <= f.churn

ExportOK(list, rows, f) ==
    /\ f.step \in {"count", "select"} => Tracked(list, MatchingIn(rows, f.filter), f)
    /\ f.step = "done" => Complete(f)

ExportInv == \A t \in Tabs : ExportOK(listing, users, fetch[t])

(* S are some of the users of a listing.                                   *)
Orders(list, S) ==
    /\ list \in Seq(Users) /\ Distinct(list)
    /\ S \in SUBSET Users /\ IsFiniteSet(S)
    /\ \A u \in S : \E i \in DOMAIN list : list[i] = u

(* A listing orders its users, and ranks number them in this order.        *)
LEMMA RankOrder ==
    ASSUME NEW list, NEW S, Orders(list, S)
    PROVE  /\ Cardinality(S) \in Nat
           /\ \A u \in S : Rank(list, S, u) \in 1..Cardinality(S)
           /\ \A u, v \in S : Before(list, v, u) <=> Rank(list, S, v) <= Rank(list, S, u)
           /\ \A u, v \in S : Rank(list, S, v) = Rank(list, S, u) => v = u
<1> DEFINE upto(u) == Upto(list, S, u)
<1>1. /\ Len(list) \in Nat /\ DOMAIN list = 1..Len(list)
      /\ Distinct(list) /\ \A u \in S : \E i \in DOMAIN list : list[i] = u
  BY LenProperties DEF Orders
<1>2. \A u \in S : Before(list, u, u)
  BY <1>1 DEF Before
<1>3. \A u, v \in S : Before(list, u, v) \/ Before(list, v, u)
  <2> SUFFICES ASSUME NEW u \in S, NEW v \in S PROVE Before(list, u, v) \/ Before(list, v, u)
    OBVIOUS
  <2>1. PICK i \in DOMAIN list, j \in DOMAIN list : list[i] = u /\ list[j] = v
    BY <1>1
  <2>2. i <= j \/ j <= i
    BY <1>1, <2>1
  <2>3. QED
    BY <2>1, <2>2 DEF Before
<1>4. \A u, v \in S : Before(list, u, v) /\ Before(list, v, u) => u = v
  BY <1>1 DEF Before, Distinct
<1>5. \A u, v, w \in S : Before(list, u, v) /\ Before(list, v, w) => Before(list, u, w)
  BY <1>1 DEF Before, Distinct
<1>6. Cardinality(S) \in Nat /\ IsFiniteSet(S)
  BY FS_CardinalityType DEF Orders
<1>7. \A u \in S : /\ u \in upto(u) /\ upto(u) \in SUBSET S
                   /\ IsFiniteSet(upto(u)) /\ Rank(list, S, u) \in 1..Cardinality(S)
  <2> SUFFICES ASSUME NEW u \in S
               PROVE  /\ u \in upto(u) /\ upto(u) \in SUBSET S
                      /\ IsFiniteSet(upto(u)) /\ Rank(list, S, u) \in 1..Cardinality(S)
    OBVIOUS
  <2>1. u \in upto(u) /\ upto(u) \in SUBSET S
    BY <1>2 DEF Upto
  <2> HIDE DEF upto
  <2>2. IsFiniteSet(upto(u)) /\ Cardinality(upto(u)) <= Cardinality(S)
    BY <1>6, <2>1, FS_Subset
  <2>3. Cardinality(upto(u)) \in Nat /\ Cardinality(upto(u)) # 0
    BY <2>1, <2>2, FS_CardinalityType, FS_EmptySet
  <2>4. QED
    BY <1>6, <2>1, <2>2, <2>3 DEF Rank, upto
<1>8. ASSUME NEW u \in S, NEW v \in S, Before(list, v, u), u # v
      PROVE  Rank(list, S, v) < Rank(list, S, u)
  <2>1. upto(v) \in SUBSET upto(u) /\ u \notin upto(v) /\ u \in upto(u)
    BY <1>2, <1>4, <1>5, <1>8 DEF Upto
  <2>2. IsFiniteSet(upto(u))
    BY <1>7
  <2> HIDE DEF upto
  <2>3. Cardinality(upto(v)) <= Cardinality(upto(u)) /\ Cardinality(upto(v)) # Cardinality(upto(u))
    BY <2>1, <2>2, FS_Subset
  <2>4. QED
    BY <1>6, <1>7, <2>3 DEF Rank, upto
<1>9. QED
  BY <1>3, <1>6, <1>7, <1>8

(* The same rows in the same order have the same ranks.                    *)
LEMMA RankSame ==
    ASSUME NEW list, NEW next, NEW S,
           \A u, v \in S : Before(list, v, u) <=> Before(next, v, u)
    PROVE  \A u \in S : Rank(next, S, u) = Rank(list, S, u)
<1>1. \A u \in S : Upto(next, S, u) = Upto(list, S, u)
  BY DEF Upto
<1>2. QED
  BY <1>1 DEF Rank

(* The listing next has x, besides S, and S in the order of list.          *)
Joins(list, S, next, x) ==
    /\ Orders(list, S)
    /\ Orders(next, S \cup {x})
    /\ x \notin S
    /\ \A u, v \in S : Before(list, v, u) <=> Before(next, v, u)

(* Then those after x have moved one place.                                *)
LEMMA RankMoves ==
    ASSUME NEW list, NEW S, NEW next, NEW x, Joins(list, S, next, x)
    PROVE  \A u \in S : Rank(next, S \cup {x}, u)
                          = Rank(list, S, u) + (IF Before(next, x, u) THEN 1 ELSE 0)
<1> SUFFICES ASSUME NEW u \in S
             PROVE  Rank(next, S \cup {x}, u)
                      = Rank(list, S, u) + (IF Before(next, x, u) THEN 1 ELSE 0)
  OBVIOUS
<1>1. Upto(list, S, u) \in SUBSET S /\ x \notin Upto(list, S, u)
  BY DEF Upto, Joins
<1>2. IsFiniteSet(Upto(list, S, u)) /\ Cardinality(Upto(list, S, u)) \in Nat
  BY <1>1, FS_Subset, FS_CardinalityType DEF Joins, Orders
<1>3. CASE Before(next, x, u)
  <2>1. Upto(next, S \cup {x}, u) = Upto(list, S, u) \cup {x}
    BY <1>3 DEF Upto, Joins
  <2>2. QED
    BY <1>1, <1>2, <1>3, <2>1, FS_AddElement DEF Rank
<1>4. CASE ~Before(next, x, u)
  <2>1. Upto(next, S \cup {x}, u) = Upto(list, S, u)
    BY <1>4 DEF Upto, Joins
  <2>2. QED
    BY <1>2, <1>4, <2>1 DEF Rank
<1>5. QED
  BY <1>3, <1>4

(* So one arrival moves at most one row past the rows fetched so far.      *)
LEMMA OneMovesOn ==
    ASSUME NEW list, NEW S, NEW next, NEW x, Joins(list, S, next, x), NEW o \in Nat
    PROVE  /\ \A u \in S : Rank(list, S, u) <= Rank(next, S \cup {x}, u)
           /\ \E w \in S \cup {x} : \A u \in S \cup {x} :
                Rank(next, S \cup {x}, u) > o => u = w \/ (u \in S /\ Rank(list, S, u) > o)
<1> DEFINE T == S \cup {x}
           old(u) == Rank(list, S, u)
           rank(u) == Rank(next, T, u)
<1>1. \A u \in S : old(u) \in Nat
  BY RankOrder DEF Joins
<1>2. /\ \A u \in T : rank(u) \in Nat
      /\ \A u, v \in T : Before(next, v, u) <=> rank(v) <= rank(u)
      /\ \A u, v \in T : rank(v) = rank(u) => v = u
  <2>1. Orders(next, T)
    BY DEF Joins
  <2> HIDE DEF T
  <2>2. QED
    BY <2>1, RankOrder
<1>3. \A u \in S : rank(u) = old(u) + (IF Before(next, x, u) THEN 1 ELSE 0)
  BY RankMoves
<1>4. x \in T /\ x \notin S /\ \A u \in T : u = x \/ u \in S
  BY DEF Joins
<1>5. \A u \in S : u \in T
  OBVIOUS
<1> HIDE DEF T, old, rank
<1>6. \A u \in S : old(u) <= rank(u)
  BY <1>1, <1>3
<1>7. CASE rank(x) > o
  <2>1. ASSUME NEW u \in S, rank(u) > o PROVE old(u) > o
    <3>1. CASE Before(next, x, u)
      BY <1>1, <1>2, <1>3, <1>4, <1>5, <1>7, <3>1
    <3>2. CASE ~Before(next, x, u)
      BY <1>1, <1>3, <2>1, <3>2
    <3>3. QED
      BY <3>1, <3>2
  <2>2. \A u \in T : rank(u) > o => u = x \/ (u \in S /\ old(u) > o)
    BY <1>4, <2>1
  <2>3. QED
    BY <1>4, <1>6, <2>2 DEF T, old, rank
<1>8. CASE ~(rank(x) > o)
  <2>1. PICK w \in T : (\E u \in T : rank(u) = o + 1) => rank(w) = o + 1
    BY <1>4
  <2>2. ASSUME NEW u \in T, rank(u) > o PROVE u = w \/ (u \in S /\ old(u) > o)
    <3>1. u \in S
      BY <1>4, <1>8, <2>2
    <3>2. old(u) >= o /\ (old(u) = o => rank(u) = o + 1)
      BY <1>1, <1>2, <1>3, <2>2, <3>1, <1>5
    <3>3. CASE old(u) = o
      BY <1>2, <2>1, <3>2, <3>3, <1>5
    <3>4. QED
      BY <1>1, <3>1, <3>2, <3>3
  <2>3. QED
    BY <1>6, <2>1, <2>2 DEF T, old, rank
<1>9. QED
  BY <1>7, <1>8

(* And one departure at most one row back among them.                      *)
LEMMA OneMovesBack ==
    ASSUME NEW list, NEW S, NEW next, NEW x, Joins(list, S, next, x), NEW o \in Nat
    PROVE  \E w \in S \cup {x} : \A u \in S :
             Rank(list, S, u) <= o => u = w \/ Rank(next, S \cup {x}, u) <= o
<1> DEFINE T == S \cup {x}
           old(u) == Rank(list, S, u)
           rank(u) == Rank(next, T, u)
<1>1. \A u \in S : old(u) \in Nat
  BY RankOrder DEF Joins
<1>2. /\ \A u \in T : rank(u) \in Nat
      /\ \A u, v \in T : rank(v) = rank(u) => v = u
  <2>1. Orders(next, T)
    BY DEF Joins
  <2> HIDE DEF T
  <2>2. QED
    BY <2>1, RankOrder
<1>3. \A u \in S : rank(u) <= old(u) + 1
  <2>1. \A u \in S : rank(u) = old(u) + (IF Before(next, x, u) THEN 1 ELSE 0)
    BY RankMoves
  <2> HIDE DEF old, rank
  <2>2. QED
    BY <1>1, <2>1
<1>4. \A u \in S : u \in T
  OBVIOUS
<1>5. PICK w \in T : (\E u \in T : rank(u) = o + 1) => rank(w) = o + 1
  OBVIOUS
<1> HIDE DEF T, old, rank
<1>6. ASSUME NEW u \in S, old(u) <= o PROVE u = w \/ rank(u) <= o
  <2>1. rank(u) <= o \/ rank(u) = o + 1
    BY <1>1, <1>2, <1>3, <1>4, <1>6
  <2>2. QED
    BY <1>2, <1>4, <1>5, <2>1
<1>7. QED
  BY <1>5, <1>6 DEF T, old, rank

(* What is counted is finite.                                              *)
LEMMA SeenFinite ==
    ASSUME NEW f \in Fetch
    PROVE  /\ IsFiniteSet(Seen(f)) /\ Cardinality(Seen(f)) \in Nat
           /\ Len(f.got) \in Nat /\ f.churn \in Nat /\ f.total \in Nat /\ f.offset \in Nat
<1>1. f.got \in Seq(Users) /\ f.churn \in Nat /\ f.total \in Nat /\ f.offset \in Nat
  BY DEF Fetch
<1>2. Len(f.got) \in Nat /\ DOMAIN f.got = 1..Len(f.got) /\ f.got \in [1..Len(f.got) -> Users]
  BY <1>1, LenProperties
<1>3. f.got \in Surjection(1..Len(f.got), Seen(f))
  BY <1>2 DEF Surjection, Seen, Members
<1>4. IsFiniteSet(1..Len(f.got))
  BY <1>2, FS_Interval
<1>5. IsFiniteSet(Seen(f))
  BY <1>3, <1>4, FS_Surjection
<1>6. QED
  BY <1>1, <1>2, <1>5, FS_CardinalityType

LEMMA CountsFinite ==
    ASSUME NEW list, NEW S, Orders(list, S), NEW f, f.stayed \subseteq S
    PROVE  /\ Missed(list, S, f) \in SUBSET S /\ IsFiniteSet(Missed(list, S, f))
           /\ Cardinality(Missed(list, S, f)) \in Nat
           /\ Ahead(list, S, f) \in SUBSET S /\ IsFiniteSet(Ahead(list, S, f))
           /\ Cardinality(Ahead(list, S, f)) \in Nat
<1>1. IsFiniteSet(S)
  BY DEF Orders
<1>2. Missed(list, S, f) \in SUBSET S /\ Ahead(list, S, f) \in SUBSET S
  BY DEF Missed, Ahead
<1>3. QED
  BY <1>1, <1>2, FS_Subset, FS_CardinalityType

(* A set that may have gained one element.                                 *)
LEMMA OneMore ==
    ASSUME NEW S, IsFiniteSet(S), NEW T, NEW w, T \subseteq S \cup {w}
    PROVE  Cardinality(T) \in Nat /\ Cardinality(T) <= Cardinality(S) + 1
<1>1. /\ IsFiniteSet(S \cup {w}) /\ Cardinality(S) \in Nat
      /\ Cardinality(S \cup {w}) \in Nat /\ Cardinality(S \cup {w}) <= Cardinality(S) + 1
  <2>1. IsFiniteSet(S \cup {w})
    BY FS_AddElement
  <2>2. Cardinality(S) \in Nat /\ Cardinality(S \cup {w}) \in Nat
    BY <2>1, FS_CardinalityType
  <2>3. Cardinality(S \cup {w}) = IF w \in S THEN Cardinality(S) ELSE Cardinality(S) + 1
    BY FS_AddElement
  <2>4. QED
    BY <2>1, <2>2, <2>3
<1>2. T \in SUBSET (S \cup {w})
  OBVIOUS
<1>3. IsFiniteSet(T) /\ Cardinality(T) <= Cardinality(S \cup {w})
  BY <1>1, <1>2, FS_Subset
<1>4. QED
  BY <1>1, <1>3, FS_CardinalityType

LEMMA NoMore ==
    ASSUME NEW S, IsFiniteSet(S), NEW T, T \subseteq S
    PROVE  Cardinality(T) \in Nat /\ Cardinality(T) <= Cardinality(S)
<1>1. T \in SUBSET S
  OBVIOUS
<1>2. QED
  BY <1>1, FS_Subset, FS_CardinalityType

(* A change under an export that adds m to its churn.                      *)
Churned(f, g, S, m) ==
    /\ g.stayed = f.stayed \cap S
    /\ g.churn = f.churn + m
    /\ g.got = f.got /\ g.offset = f.offset /\ g.total = f.total /\ g.step = f.step

(* A row arrives.                                                          *)
LEMMA TrackedJoins ==
    ASSUME NEW list, NEW S, NEW next, NEW x, Joins(list, S, next, x),
           NEW f \in Fetch, NEW g \in Fetch, Tracked(list, S, f), Churned(f, g, S \cup {x}, 1)
    PROVE  Tracked(next, S \cup {x}, g)
<1> DEFINE T == S \cup {x}
<1>1. PICK n \in 0..f.churn :
        /\ Cardinality(Missed(list, S, f)) <= f.churn - n
        /\ Len(f.got) - Cardinality(Seen(f)) + Cardinality(Ahead(list, S, f)) <= n
        /\ f.step = "select" => Cardinality(S) - f.total <= n
  BY DEF Tracked
<1>2. /\ IsFiniteSet(S) /\ Cardinality(S) \in Nat
      /\ IsFiniteSet(Missed(list, S, f)) /\ Cardinality(Missed(list, S, f)) \in Nat
      /\ IsFiniteSet(Ahead(list, S, f)) /\ Cardinality(Ahead(list, S, f)) \in Nat
  BY CountsFinite, FS_CardinalityType DEF Joins, Orders, Tracked
<1>3. /\ Seen(g) = Seen(f) /\ Cardinality(Seen(f)) \in Nat
      /\ Len(f.got) \in Nat /\ f.churn \in Nat /\ f.total \in Nat /\ f.offset \in Nat
  BY SeenFinite DEF Churned, Seen
<1>4. /\ \A u \in S : Rank(list, S, u) <= Rank(next, T, u)
      /\ \A u \in S : Rank(list, S, u) \in Nat /\ Rank(next, T, u) \in Nat
  <2>1. Orders(next, T) /\ Orders(list, S)
    BY DEF Joins
  <2>2. \A u \in S : Rank(list, S, u) <= Rank(next, T, u)
    BY <1>3, OneMovesOn
  <2>3. \A u \in S : u \in T
    OBVIOUS
  <2> HIDE DEF T
  <2>4. QED
    BY <2>1, <2>2, <2>3, RankOrder
<1>5. PICK w \in T : \A u \in T :
        Rank(next, T, u) > f.offset => u = w \/ (u \in S /\ Rank(list, S, u) > f.offset)
  BY <1>3, OneMovesOn
<1>6. Cardinality(T) \in Nat /\ Cardinality(T) <= Cardinality(S) + 1
  BY <1>2, OneMore
<1> HIDE DEF T
<1>7. Missed(next, T, g) \subseteq Missed(list, S, f)
  BY <1>3, <1>4 DEF Missed, Churned, Tracked
<1>8. Ahead(next, T, g) \subseteq Ahead(list, S, f) \cup {w}
  BY <1>3, <1>5 DEF Ahead, Churned
<1>9. /\ Cardinality(Missed(next, T, g)) \in Nat
      /\ Cardinality(Missed(next, T, g)) <= g.churn - (n + 1)
  <2>1. g.churn = f.churn + 1
    BY DEF Churned
  <2>2. /\ Cardinality(Missed(next, T, g)) \in Nat
        /\ Cardinality(Missed(next, T, g)) <= Cardinality(Missed(list, S, f))
    BY <1>2, <1>7, NoMore
  <2>3. QED
    BY <1>1, <1>2, <1>3, <2>1, <2>2
<1>10. Len(g.got) - Cardinality(Seen(g)) + Cardinality(Ahead(next, T, g)) <= n + 1
  <2>1. Len(g.got) = Len(f.got)
    BY DEF Churned
  <2>2. /\ Cardinality(Ahead(next, T, g)) \in Nat
        /\ Cardinality(Ahead(next, T, g)) <= Cardinality(Ahead(list, S, f)) + 1
    BY <1>2, <1>8, OneMore
  <2>3. QED
    BY <1>1, <1>2, <1>3, <2>1, <2>2
<1>11. g.step = "select" => Cardinality(T) - g.total <= n + 1
  BY <1>1, <1>2, <1>3, <1>6 DEF Churned
<1>12. g.stayed \subseteq T /\ g.offset = Len(g.got) /\ n + 1 \in 0..g.churn
  BY <1>1, <1>3 DEF Churned, Tracked, T
<1>13. QED
  BY <1>9, <1>10, <1>11, <1>12 DEF Tracked, T

(* A row goes.                                                             *)
LEMMA TrackedLeaves ==
    ASSUME NEW list, NEW S, NEW next, NEW x, Joins(list, S, next, x),
           NEW f \in Fetch, NEW g \in Fetch, Tracked(next, S \cup {x}, f), Churned(f, g, S, 1)
    PROVE  Tracked(list, S, g)
<1> DEFINE T == S \cup {x}
<1>0. Orders(next, T) /\ Tracked(next, T, f)
  BY DEF Joins
<1>1. PICK n \in 0..f.churn :
        /\ Cardinality(Missed(next, T, f)) <= f.churn - n
        /\ Len(f.got) - Cardinality(Seen(f)) + Cardinality(Ahead(next, T, f)) <= n
        /\ f.step = "select" => Cardinality(T) - f.total <= n
  BY DEF Tracked
<1>3. /\ Seen(g) = Seen(f) /\ Cardinality(Seen(f)) \in Nat
      /\ Len(f.got) \in Nat /\ f.churn \in Nat /\ f.total \in Nat /\ f.offset \in Nat
  BY SeenFinite DEF Churned, Seen
<1>4. /\ \A u \in S : Rank(list, S, u) <= Rank(next, T, u)
      /\ \A u \in S : Rank(list, S, u) \in Nat /\ Rank(next, T, u) \in Nat
  <2>1. Orders(next, T) /\ Orders(list, S)
    BY DEF Joins
  <2>2. \A u \in S : Rank(list, S, u) <= Rank(next, T, u)
    BY <1>3, OneMovesOn
  <2>3. \A u \in S : u \in T
    OBVIOUS
  <2> HIDE DEF T
  <2>4. QED
    BY <2>1, <2>2, <2>3, RankOrder
<1>5. PICK w \in T : \A u \in S :
        Rank(list, S, u) <= f.offset => u = w \/ Rank(next, T, u) <= f.offset
  <2>1. f.offset \in Nat
    BY <1>3
  <2>2. QED
    BY <2>1, OneMovesBack
<1>6. S \subseteq T
  OBVIOUS
<1> HIDE DEF T
<1>2. /\ IsFiniteSet(T) /\ Cardinality(T) \in Nat
      /\ IsFiniteSet(Missed(next, T, f)) /\ Cardinality(Missed(next, T, f)) \in Nat
      /\ IsFiniteSet(Ahead(next, T, f)) /\ Cardinality(Ahead(next, T, f)) \in Nat
  BY <1>0, CountsFinite, FS_CardinalityType DEF Orders, Tracked
<1>7. Missed(list, S, g) \subseteq Missed(next, T, f) \cup {w}
  BY <1>0, <1>3, <1>5 DEF Missed, Churned, Tracked
<1>8. Ahead(list, S, g) \subseteq Ahead(next, T, f)
  BY <1>3, <1>4, <1>6 DEF Ahead, Churned
<1>9. Cardinality(Missed(list, S, g)) <= g.churn - n
  <2>1. g.churn = f.churn + 1
    BY DEF Churned
  <2>2. /\ Cardinality(Missed(list, S, g)) \in Nat
        /\ Cardinality(Missed(list, S, g)) <= Cardinality(Missed(next, T, f)) + 1
    BY <1>2, <1>7, OneMore
  <2>3. QED
    BY <1>1, <1>2, <1>3, <2>1, <2>2
<1>10. Len(g.got) - Cardinality(Seen(g)) + Cardinality(Ahead(list, S, g)) <= n
  <2>1. Len(g.got) = Len(f.got)
    BY DEF Churned
  <2>2. /\ Cardinality(Ahead(list, S, g)) \in Nat
        /\ Cardinality(Ahead(list, S, g)) <= Cardinality(Ahead(next, T, f))
    BY <1>2, <1>8, NoMore
  <2>3. QED
    BY <1>1, <1>2, <1>3, <2>1, <2>2
<1>11. g.step = "select" => Cardinality(S) - g.total <= n
  <2>1. Cardinality(S) \in Nat /\ Cardinality(S) <= Cardinality(T)
    BY <1>2, <1>6, NoMore
  <2>2. QED
    BY <1>1, <1>2, <1>3, <2>1 DEF Churned
<1>12. g.stayed \subseteq S /\ g.offset = Len(g.got) /\ n \in 0..g.churn
  BY <1>0, <1>1, <1>3 DEF Churned, Tracked
<1>13. QED
  BY <1>9, <1>10, <1>11, <1>12 DEF Tracked

(* Neither: the matching rows are the same, in the same order.             *)
LEMMA TrackedSame ==
    ASSUME NEW list, NEW S, NEW next, \A u, v \in S : Before(list, v, u) <=> Before(next, v, u),
           NEW f \in Fetch, NEW g \in Fetch, Tracked(list, S, f), Churned(f, g, S, 0)
    PROVE  Tracked(next, S, g)
<1>1. /\ Seen(g) = Seen(f) /\ g.stayed = f.stayed
      /\ g.got = f.got /\ g.offset = f.offset /\ g.total = f.total /\ g.step = f.step
  BY DEF Churned, Seen, Tracked
<1>2. g.churn = f.churn
  BY SeenFinite DEF Churned
<1>3. \A u \in S : Rank(next, S, u) = Rank(list, S, u)
  BY RankSame
<1>4. Missed(next, S, g) = Missed(list, S, f) /\ Ahead(next, S, g) = Ahead(list, S, f)
  BY <1>1, <1>3 DEF Missed, Ahead, Tracked
<1>5. QED
  BY <1>1, <1>2, <1>4 DEF Tracked

(* A row that is listed somewhere leaves the others in their order.        *)
LEMMA BeforeInserted ==
    ASSUME NEW s \in Seq(Users), NEW x, \A j \in DOMAIN s : s[j] # x, NEW i \in 0..Len(s)
    PROVE  \A u, v \in Users \ {x} : Before(s, v, u) <=> Before(ListedAt(s, i, x), v, u)
<1> DEFINE r == ListedAt(s, i, x)
<1>1. /\ Len(s) \in Nat /\ DOMAIN s = 1..Len(s) /\ DOMAIN r = 1..(Len(s) + 1)
      /\ \A j \in 1..(Len(s) + 1) : r[j] = IF j <= i THEN s[j] ELSE IF j = i + 1 THEN x ELSE s[j - 1]
  BY LenProperties DEF ListedAt
<1> HIDE DEF r
<1> SUFFICES ASSUME NEW u \in Users \ {x}, NEW v \in Users \ {x}
             PROVE  Before(s, v, u) <=> Before(r, v, u)
  BY DEF r
<1>2. ASSUME Before(s, v, u) PROVE Before(r, v, u)
  <2>1. PICK j \in DOMAIN s, l \in DOMAIN s : j <= l /\ s[j] = v /\ s[l] = u
    BY <1>2 DEF Before
  <2> DEFINE at(k) == IF k <= i THEN k ELSE k + 1
  <2>2. at(j) \in DOMAIN r /\ at(l) \in DOMAIN r /\ at(j) <= at(l)
    BY <1>1, <2>1
  <2>3. r[at(j)] = v
    BY <1>1, <2>1
  <2>4. r[at(l)] = u
    BY <1>1, <2>1
  <2> HIDE DEF at
  <2>5. QED
    BY <2>2, <2>3, <2>4 DEF Before
<1>3. ASSUME Before(r, v, u) PROVE Before(s, v, u)
  <2>1. PICK j \in DOMAIN r, l \in DOMAIN r : j <= l /\ r[j] = v /\ r[l] = u
    BY <1>3 DEF Before
  <2> DEFINE at(k) == IF k <= i THEN k ELSE k - 1
  <2>2. j # i + 1 /\ l # i + 1
    BY <1>1, <2>1
  <2>3. at(j) \in DOMAIN s /\ at(l) \in DOMAIN s /\ at(j) <= at(l)
    BY <1>1, <2>1, <2>2
  <2>4. s[at(j)] = v
    BY <1>1, <2>1, <2>2
  <2>5. s[at(l)] = u
    BY <1>1, <2>1, <2>2
  <2> HIDE DEF at
  <2>6. QED
    BY <2>3, <2>4, <2>5 DEF Before
<1>4. QED
  BY <1>2, <1>3

(* So does one that is taken out.                                          *)
LEMMA BeforeRemoved ==
    ASSUME NEW s \in Seq(Users), Distinct(s), NEW i \in DOMAIN s
    PROVE  \A u, v \in Users \ {s[i]} : Before(s, v, u) <=> Before(UnlistedAt(s, i), v, u)
<1> DEFINE r == UnlistedAt(s, i)
           x == s[i]
<1>1. Len(s) \in Nat \ {0} /\ DOMAIN s = 1..Len(s) /\ x \in Users
  BY LenProperties, ElementOfSeq
<1>2. r \in Seq(Users) /\ DOMAIN r = 1..(Len(s) - 1) /\ Len(r) = Len(s) - 1
  <2>1. r \in Seq(Users) /\ DOMAIN r = 1..(Len(s) - 1)
    BY Removed DEF UnlistedAt
  <2>2. Len(r) = Len(s) - 1
    BY <1>1, <2>1, LenProperties DEF UnlistedAt
  <2>3. QED
    BY <2>1, <2>2
<1>3. \A j \in 1..(Len(s) - 1) : r[j] = IF j < i THEN s[j] ELSE s[j + 1]
  BY DEF UnlistedAt
<1>4. ASSUME NEW j \in DOMAIN r
      PROVE  r[j] # x
  <2>1. CASE j < i
    BY <1>1, <1>2, <1>3, <2>1 DEF Distinct
  <2>2. CASE ~(j < i)
    <3>1. j + 1 \in DOMAIN s /\ j + 1 # i /\ r[j] = s[j + 1]
      BY <1>1, <1>2, <1>3, <2>2
    <3>2. QED
      BY <3>1 DEF Distinct
  <2>3. QED
    BY <2>1, <2>2
<1>5. ListedAt(r, i - 1, x) = s
  <2>1. s = [j \in 1..Len(s) |-> s[j]]
    BY LenProperties
  <2>2. ListedAt(r, i - 1, x) =
          [j \in 1..Len(s) |-> IF j <= i - 1 THEN r[j] ELSE IF j = i THEN x ELSE r[j - 1]]
    BY <1>1, <1>2 DEF ListedAt
  <2>3. ASSUME NEW j \in 1..Len(s)
        PROVE  s[j] = IF j <= i - 1 THEN r[j] ELSE IF j = i THEN x ELSE r[j - 1]
    <3>1. CASE j <= i - 1
      BY <1>1, <1>3, <3>1
    <3>2. CASE j = i
      BY <1>1, <3>2
    <3>3. CASE j > i
      <4>1. j - 1 \in 1..(Len(s) - 1) /\ ~(j - 1 < i) /\ (j - 1) + 1 = j
        BY <1>1, <3>3
      <4>2. QED
        BY <1>1, <1>3, <3>3, <4>1
    <3>4. QED
      BY <1>1, <3>1, <3>2, <3>3
  <2>4. QED
    BY <2>1, <2>2, <2>3
<1>6. i - 1 \in 0..Len(r)
  BY <1>1, <1>2
<1> HIDE DEF r, x
<1>7. \A u, v \in Users \ {x} : Before(r, v, u) <=> Before(ListedAt(r, i - 1, x), v, u)
  BY <1>2, <1>4, <1>6, BeforeInserted
<1>8. QED
  BY <1>5, <1>7 DEF r, x

(* What a filter finds are some of the users of the listing.               *)
LEMMA MatchingOrdered ==
    ListingInv => \A filter \in Filters : Orders(listing, MatchingIn(users, filter))
<1> SUFFICES ASSUME ListingInv, NEW filter \in Filters
             PROVE  Orders(listing, MatchingIn(users, filter))
  OBVIOUS
<1>1. IsFiniteSet(MatchingIn(users, filter))
  BY MatchingFinite
<1>2. \A u \in MatchingIn(users, filter) : u \in Users /\ Exists(u)
  BY DEF MatchingIn, Matches, Exists
<1>3. QED
  BY <1>1, <1>2 DEF Orders, ListingInv

(* A query finds the matching rows in the order of their ranks.            *)
LEMMA FoundRanked ==
    ASSUME ListingInv, NEW filter \in Filters, NEW found \in Found(filter)
    PROVE  /\ Len(found) = Cardinality(MatchingIn(users, filter))
           /\ \A k \in 1..Len(found) :
                /\ found[k] \in MatchingIn(users, filter)
                /\ Rank(listing, MatchingIn(users, filter), found[k]) = k
<1> DEFINE S == MatchingIn(users, filter)
           places == {i \in DOMAIN listing : Matches(users[listing[i]], filter)}
           m == Cardinality(places)
<1>1. /\ Len(listing) \in Nat /\ DOMAIN listing = 1..Len(listing)
      /\ \A i \in 1..Len(listing) : listing[i] \in Users
  BY LenProperties, ElementOfSeq DEF ListingInv
<1>2. places \in SUBSET (1..Len(listing)) /\ IsFiniteSet(places)
  <2>1. IsFiniteSet(1..Len(listing)) /\ places \in SUBSET (1..Len(listing))
    BY <1>1, FS_Interval
  <2>2. QED
    BY <2>1, FS_Subset
<1>3. m \in Nat
  BY <1>2, FS_CardinalityType
<1>4. /\ \A i \in places : listing[i] \in S
      /\ \A u \in S : \E i \in places : listing[i] = u
  <2>1. \A i \in places : listing[i] \in S
    BY <1>1 DEF MatchingIn
  <2>2. ASSUME NEW u \in S PROVE \E i \in places : listing[i] = u
    <3>1. u \in Users /\ Exists(u) /\ Matches(users[u], filter)
      BY DEF MatchingIn, Matches, Exists
    <3>2. QED
      BY <3>1 DEF ListingInv
  <2>3. QED
    BY <2>1, <2>2
<1>5. PICK place \in [1..m -> places] :
        /\ \A j, k \in DOMAIN place : j < k => place[j] < place[k]
        /\ found = [k \in DOMAIN place |-> listing[place[k]]]
  BY DEF Found
<1>6. \A i, j \in places : listing[i] = listing[j] => i = j
  BY DEF ListingInv, Distinct
<1> HIDE DEF S, places
<1>7. Cardinality(S) = m
  <2> DEFINE row == [i \in places |-> listing[i]]
  <2>1. row \in Surjection(places, S) /\ row \in Injection(places, S)
    BY <1>4, <1>6 DEF Surjection, Injection, IsInjective
  <2>2. QED
    BY <1>2, <2>1, FS_Surjection
<1> HIDE DEF m
<1>8. found \in [1..m -> S] /\ Len(found) = m
  <2>1. found \in [1..m -> S]
    BY <1>4, <1>5
  <2>2. found \in Seq(S)
    BY <1>3, <2>1, SeqDef
  <2>3. QED
    BY <1>3, <2>1, <2>2, LenProperties
<1>9. /\ \A k \in 1..m : place[k] \in places /\ place[k] \in Nat
      /\ \A j, k \in 1..m : place[j] <= place[k] <=> j <= k
  <2>1. \A k \in 1..m : place[k] \in places /\ place[k] \in Nat
    <3>1. \A k \in 1..m : place[k] \in places
      OBVIOUS
    <3>2. \A i \in places : i \in Nat
      BY <1>1, <1>2
    <3>3. QED
      BY <3>1, <3>2
  <2>2. \A j, k \in 1..m : j < k => place[j] < place[k]
    BY <1>5
  <2>3. QED
    BY <1>3, <2>1, <2>2
<1>10. \A i \in places : \E k \in 1..m : place[k] = i
  <2>1. place \in Injection(1..m, places)
    BY <1>1, <1>2, <1>5, <1>9 DEF Injection, IsInjective
  <2>2. Cardinality(1..m) = m
    BY <1>3, FS_Interval
  <2>3. place \in Surjection(1..m, places)
    BY <1>2, <2>1, <2>2, FS_Injection DEF m
  <2>4. QED
    BY <2>3 DEF Surjection
<1>11. ASSUME NEW k \in 1..m
       PROVE  Rank(listing, S, found[k]) = k
  <2> DEFINE first == [j \in 1..k |-> found[j]]
             upto == Upto(listing, S, found[k])
  <2>1. ASSUME NEW j \in 1..k PROVE found[j] \in upto
    <3>1. j \in 1..m /\ j <= k
      BY <1>3
    <3>2. place[j] <= place[k] /\ place[j] \in DOMAIN listing /\ place[k] \in DOMAIN listing
      BY <1>1, <1>2, <1>5, <1>9, <3>1
    <3>3. found[j] \in S /\ found[j] = listing[place[j]] /\ found[k] = listing[place[k]]
      BY <1>5, <1>8, <3>1
    <3>4. QED
      BY <3>2, <3>3 DEF Upto, Before
  <2>2. ASSUME NEW u \in upto PROVE \E j \in 1..k : found[j] = u
    <3>1. PICK i \in DOMAIN listing, l \in DOMAIN listing :
            i <= l /\ listing[i] = u /\ listing[l] = found[k]
      BY DEF Upto, Before
    <3>2. l = place[k]
      BY <1>1, <1>2, <1>5, <3>1 DEF ListingInv, Distinct
    <3>3. PICK p \in places : listing[p] = u
      BY <1>4 DEF Upto
    <3>4. p = i
      BY <1>1, <1>2, <3>1, <3>3 DEF ListingInv, Distinct
    <3>5. PICK j \in 1..m : place[j] = p
      BY <1>10
    <3>6. j <= k
      BY <1>9, <3>1, <3>2, <3>4, <3>5
    <3>7. found[j] = u
      BY <1>5, <3>3, <3>5
    <3>8. j \in 1..k
      BY <1>3, <3>6
    <3>9. QED
      BY <3>7, <3>8
  <2>3. ASSUME NEW j \in 1..k, NEW l \in 1..k, found[j] = found[l] PROVE j = l
    <3>1. j \in 1..m /\ l \in 1..m
      BY <1>3
    <3>2. place[j] \in places /\ place[l] \in places /\ listing[place[j]] = listing[place[l]]
      BY <1>5, <2>3, <3>1
    <3>3. place[j] = place[l]
      BY <1>6, <3>2
    <3>4. place[j] <= place[l] /\ place[l] <= place[j]
      BY <1>9, <3>1, <3>3
    <3>5. QED
      BY <1>9, <3>1, <3>4
  <2> HIDE DEF upto
  <2>4. first \in Surjection(1..k, upto) /\ first \in Injection(1..k, upto)
    BY <2>1, <2>2, <2>3 DEF Surjection, Injection, IsInjective
  <2>5. IsFiniteSet(1..k) /\ Cardinality(1..k) = k
    BY <1>3, FS_Interval
  <2> HIDE DEF first
  <2>6. Cardinality(upto) = k
    BY <2>4, <2>5, FS_Surjection
  <2>7. QED
    BY <2>6 DEF Rank, upto
<1>12. QED
  BY <1>7, <1>8, <1>11 DEF S

(* A page is the rows after the offset, as many as there are up to limit.  *)
LEMMA PageRows ==
    ASSUME NEW found \in Seq(Users), NEW o \in Nat, NEW limit \in Nat \ {0}
    PROVE  /\ Len(Page(found, o, limit))
                = IF o + limit <= Len(found) THEN limit
                  ELSE IF o <= Len(found) THEN Len(found) - o ELSE 0
           /\ \A i \in 1..Len(Page(found, o, limit)) :
                o + i \in 1..Len(found) /\ Page(found, o, limit)[i] = found[o + i]
<1>1. Len(found) \in Nat /\ \A i \in 1..Len(found) : found[i] \in Users
  BY LenProperties, ElementOfSeq
<1> DEFINE last == IF o + limit < Len(found) THEN o + limit ELSE Len(found)
           n == IF o + 1 <= last THEN last - o ELSE 0
<1>2. last \in Nat /\ last <= Len(found)
  BY <1>1
<1>3. Page(found, o, limit) = SubSeq(found, o + 1, last)
  BY DEF Page
<1>4. n = IF o + limit <= Len(found) THEN limit
          ELSE IF o <= Len(found) THEN Len(found) - o ELSE 0
  BY <1>1
<1> HIDE DEF last
<1>5. \A i \in (o + 1)..last : found[i] \in Users
  BY <1>1, <1>2
<1>6. o + 1 \in Int /\ last \in Int
  BY <1>2
<1>7. /\ Len(SubSeq(found, o + 1, last)) = n
      /\ \A i \in 1..n : SubSeq(found, o + 1, last)[i] = found[o + i]
  <2>1. /\ Len(SubSeq(found, o + 1, last)) = IF o + 1 <= last THEN last - (o + 1) + 1 ELSE 0
        /\ \A i \in 1..(last - (o + 1) + 1) : SubSeq(found, o + 1, last)[i] = found[o + 1 + i - 1]
    BY <1>5, <1>6, SubSeqProperties
  <2>2. last - (o + 1) + 1 = last - o /\ \A i \in Nat : o + 1 + i - 1 = o + i
    BY <1>2
  <2>3. Len(SubSeq(found, o + 1, last)) = n
    BY <1>2, <2>1, <2>2
  <2>4. ASSUME NEW i \in 1..n PROVE SubSeq(found, o + 1, last)[i] = found[o + i]
    <3>1. i \in 1..(last - (o + 1) + 1) /\ i \in Nat
      BY <1>2
    <3>2. SubSeq(found, o + 1, last)[i] = found[o + 1 + i - 1]
      BY <2>1, <3>1
    <3>3. QED
      BY <2>2, <3>1, <3>2
  <2>5. QED
    BY <2>3, <2>4
<1>8. \A i \in 1..n : o + i \in 1..Len(found)
  BY <1>1, <1>2
<1>9. QED
  BY <1>3, <1>4, <1>7, <1>8

(* The rows behind a place are no more than there are places behind it.    *)
LEMMA Behind ==
    ASSUME NEW list, NEW S, Orders(list, S), NEW q \in Nat
    PROVE  LET later == {u \in S : Rank(list, S, u) > q} IN
           /\ IsFiniteSet(later) /\ Cardinality(later) \in Nat
           /\ q >= Cardinality(S) => later = {}
           /\ q < Cardinality(S) => Cardinality(later) <= Cardinality(S) - q
<1> DEFINE later == {u \in S : Rank(list, S, u) > q}
           m == Cardinality(S)
<1>1. /\ m \in Nat
      /\ \A u \in S : Rank(list, S, u) \in 1..m
      /\ \A u, v \in S : Rank(list, S, v) = Rank(list, S, u) => v = u
  BY RankOrder
<1>2. IsFiniteSet(later) /\ Cardinality(later) \in Nat
  <2>1. IsFiniteSet(S) /\ later \in SUBSET S
    BY DEF Orders
  <2>2. QED
    BY <2>1, FS_Subset, FS_CardinalityType
<1>3. q >= m => later = {}
  BY <1>1
<1>4. ASSUME q < m PROVE Cardinality(later) <= m - q
  <2> DEFINE place == [u \in later |-> Rank(list, S, u)]
  <2>1. place \in Injection(later, (q + 1)..m)
    BY <1>1 DEF Injection, IsInjective
  <2>2. IsFiniteSet((q + 1)..m) /\ Cardinality((q + 1)..m) = m - q
    <3>1. q + 1 \in Int /\ m \in Int /\ ~(q + 1 > m) /\ m - (q + 1) + 1 = m - q
      BY <1>1, <1>4
    <3> HIDE DEF m
    <3>2. QED
      BY <3>1, FS_Interval
  <2> HIDE DEF place, later, m
  <2>3. QED
    BY <2>1, <2>2, FS_Injection
<1>5. QED
  BY <1>2, <1>3, <1>4

(* found are the members of S in the order of the listing.                 *)
Lists(found, list, S) ==
    /\ Orders(list, S)
    /\ found \in Seq(Users) /\ Len(found) = Cardinality(S)
    /\ \A k \in 1..Len(found) : found[k] \in S /\ Rank(list, S, found[k]) = k

(* The rows of a page, by their ranks.                                     *)
LEMMA PageRanks ==
    ASSUME NEW list, NEW S, NEW found, Lists(found, list, S),
           NEW o \in Nat, NEW limit \in Nat \ {0}
    PROVE  LET items == Page(found, o, limit)
               rows  == Members(items)
           IN /\ items \in Seq(Users) /\ Len(items) \in 0..limit
              /\ rows = {u \in S : o < Rank(list, S, u) /\ Rank(list, S, u) <= o + limit}
              /\ Cardinality(rows) = Len(items)
              /\ Len(items) < limit <=> Cardinality(S) < o + limit
<1> DEFINE items == Page(found, o, limit)
           rows == {items[i] : i \in DOMAIN items}
           n == Len(items)
           m == Cardinality(S)
<1>1. /\ m \in Nat /\ Len(found) = m /\ found \in Seq(Users)
      /\ \A u \in S : Rank(list, S, u) \in 1..m
      /\ \A u, v \in S : Rank(list, S, v) = Rank(list, S, u) => v = u
      /\ \A k \in 1..m : found[k] \in S /\ Rank(list, S, found[k]) = k
  BY RankOrder DEF Lists
<1>2. items \in Seq(Users)
  BY <1>1, PageTyped
<1>3. /\ n = IF o + limit <= m THEN limit ELSE IF o <= m THEN m - o ELSE 0
      /\ \A i \in 1..n : o + i \in 1..m /\ items[i] = found[o + i]
  <2>1. /\ n = IF o + limit <= Len(found) THEN limit
                ELSE IF o <= Len(found) THEN Len(found) - o ELSE 0
        /\ \A i \in 1..n : o + i \in 1..Len(found) /\ items[i] = found[o + i]
    <3>1. found \in Seq(Users)
      BY <1>1
    <3>2. QED
      BY <3>1, PageRows
  <2> HIDE DEF items, m, n
  <2>2. QED
    BY <1>1, <2>1
<1> HIDE DEF items, m
<1>4. n \in 0..limit /\ (n < limit <=> m < o + limit)
  BY <1>1, <1>3
<1>5. DOMAIN items = 1..n /\ n \in Nat
  BY <1>2, LenProperties
<1> HIDE DEF n
<1>6. \A i \in 1..n : items[i] \in S /\ Rank(list, S, items[i]) = o + i
  BY <1>1, <1>3
<1>7. rows = {u \in S : o < Rank(list, S, u) /\ Rank(list, S, u) <= o + limit}
  <2>1. ASSUME NEW i \in 1..n
        PROVE  items[i] \in S /\ o < Rank(list, S, items[i]) /\ Rank(list, S, items[i]) <= o + limit
    BY <1>4, <1>5, <1>6
  <2>2. ASSUME NEW u \in S, o < Rank(list, S, u), Rank(list, S, u) <= o + limit
        PROVE  \E i \in 1..n : items[i] = u
    <3>1. PICK k \in 1..m : k = Rank(list, S, u)
      BY <1>1
    <3>2. k - o \in 1..n /\ o + (k - o) = k
      BY <1>1, <1>3, <2>2, <3>1
    <3>3. items[k - o] \in S /\ Rank(list, S, items[k - o]) = k
      BY <1>6, <3>2
    <3>4. items[k - o] = u
      BY <1>1, <3>1, <3>3
    <3>5. QED
      BY <3>2, <3>4
  <2>3. QED
    BY <1>5, <2>1, <2>2
<1>8. Cardinality(rows) = n
  <2>1. items \in [1..n -> rows]
    <3>1. items \in [1..n -> Users]
      BY <1>2, <1>5, LenProperties
    <3>2. QED
      BY <1>5, <3>1
  <2>2. items \in Surjection(1..n, rows)
    BY <1>5, <2>1 DEF Surjection
  <2>3. \A i, j \in 1..n : items[i] = items[j] => i = j
    <3>1. \A i, j \in 1..n : o + i = o + j => i = j
      BY <1>5
    <3>2. QED
      BY <1>6, <3>1
  <2>4. items \in Injection(1..n, rows)
    BY <2>1, <2>3 DEF Injection, IsInjective
  <2>5. IsFiniteSet(1..n) /\ Cardinality(1..n) = n
    BY <1>5, FS_Interval
  <2> HIDE DEF rows
  <2>6. QED
    BY <2>2, <2>4, <2>5, FS_Surjection
<1>9. QED
  BY <1>2, <1>4, <1>7, <1>8 DEF items, n, m, Members

(* The elements of two sequences, one after the other.                     *)
LEMMA BothMembers ==
    ASSUME NEW s \in Seq(Users), NEW r \in Seq(Users)
    PROVE  /\ Len(s \o r) = Len(s) + Len(r)
           /\ Members(s \o r) = Members(s) \cup Members(r)
<1> DEFINE c == s \o r
<1>1. Len(s) \in Nat /\ Len(r) \in Nat /\ DOMAIN s = 1..Len(s) /\ DOMAIN r = 1..Len(r)
  BY LenProperties
<1>2. /\ c \in Seq(Users) /\ Len(c) = Len(s) + Len(r)
      /\ \A i \in 1..(Len(s) + Len(r)) : c[i] = IF i <= Len(s) THEN s[i] ELSE r[i - Len(s)]
  BY ConcatProperties
<1> HIDE DEF c
<1>3. DOMAIN c = 1..(Len(s) + Len(r))
  BY <1>2, LenProperties
<1> DEFINE all == {c[i] : i \in DOMAIN c}
<1>4. ASSUME NEW i \in DOMAIN s PROVE s[i] \in all
  <2>1. i \in DOMAIN c /\ c[i] = s[i]
    BY <1>1, <1>2, <1>3
  <2>2. QED
    BY <2>1
<1>5. ASSUME NEW i \in DOMAIN r PROVE r[i] \in all
  <2>1. i + Len(s) \in DOMAIN c /\ ~(i + Len(s) <= Len(s)) /\ (i + Len(s)) - Len(s) = i
    BY <1>1, <1>3
  <2>2. c[i + Len(s)] = r[i]
    BY <1>2, <1>3, <2>1
  <2>3. QED
    BY <2>1, <2>2
<1>6. ASSUME NEW i \in DOMAIN c
      PROVE  c[i] \in {s[j] : j \in DOMAIN s} \/ c[i] \in {r[j] : j \in DOMAIN r}
  <2>1. CASE i <= Len(s)
    BY <1>1, <1>2, <1>3, <2>1
  <2>2. CASE ~(i <= Len(s))
    <3>1. i - Len(s) \in DOMAIN r /\ c[i] = r[i - Len(s)]
      BY <1>1, <1>2, <1>3, <2>2
    <3>2. QED
      BY <3>1
  <2>3. QED
    BY <2>1, <2>2
<1>7. QED
  BY <1>2, <1>4, <1>5, <1>6 DEF c, Members

(* How many two sets have together.                                        *)
LEMMA Together ==
    ASSUME NEW S, IsFiniteSet(S), NEW T, IsFiniteSet(T)
    PROVE  /\ IsFiniteSet(S \cup T) /\ Cardinality(S \cup T) \in Nat
           /\ Cardinality(S \cup T) <= Cardinality(S) + Cardinality(T)
           /\ S \cap T = {} => Cardinality(S \cup T) = Cardinality(S) + Cardinality(T)
<1>1. /\ IsFiniteSet(S \cup T)
      /\ Cardinality(S \cup T) = Cardinality(S) + Cardinality(T) - Cardinality(S \cap T)
  BY FS_Union
<1>2. IsFiniteSet(S \cap T)
  BY FS_Intersection
<1>3. /\ Cardinality(S) \in Nat /\ Cardinality(T) \in Nat
      /\ Cardinality(S \cup T) \in Nat /\ Cardinality(S \cap T) \in Nat
  BY <1>1, <1>2, FS_CardinalityType
<1>4. S \cap T = {} => Cardinality(S \cap T) = 0
  BY FS_EmptySet
<1>5. QED
  BY <1>1, <1>3, <1>4

(* The export after a page of found.                                       *)
Turned(f, g, items) == g.got = f.got \o items /\ g.stayed = f.stayed /\ g.churn = f.churn

(* A page: it has the users behind the offset, and repeats those of them   *)
(* that had been seen ahead of it.                                         *)
LEMMA TrackedPage ==
    ASSUME NEW list, NEW S, NEW found, Lists(found, list, S),
           NEW f \in Fetch, f.step = "select", Tracked(list, S, f), NEW limit \in Nat \ {0},
           NEW g \in Fetch, Turned(f, g, Page(found, f.offset, limit))
    PROVE  LET items == Page(found, f.offset, limit) IN
           /\ Len(items) < limit \/ Len(g.got) >= f.total => Complete(g)
           /\ ~(Len(items) < limit) /\ g.offset = f.offset + limit /\ g.step = "count"
                 => Tracked(list, S, g)
<1> DEFINE items == Page(found, f.offset, limit)
           q == f.offset + limit
           rows == Members(items)
           both == Seen(f) \cap rows
           later == {u \in S : Rank(list, S, u) > q}
           beyond == {u \in S \cap Seen(f) : Rank(list, S, u) > q}
           m == Cardinality(S)
           seen == Cardinality(Seen(f))
           ahead == Cardinality(Ahead(list, S, f))
           missed == Cardinality(Missed(list, S, f))
<1>1. PICK n \in 0..f.churn :
        missed <= f.churn - n /\ Len(f.got) - seen + ahead <= n /\ m - f.total <= n
  BY DEF Tracked
<1>2. f.stayed \subseteq S /\ f.offset = Len(f.got)
  BY DEF Tracked
<1>3. /\ IsFiniteSet(Seen(f)) /\ seen \in Nat
      /\ Len(f.got) \in Nat /\ f.churn \in Nat /\ f.total \in Nat /\ f.offset \in Nat
  BY SeenFinite
<1>4. /\ IsFiniteSet(Missed(list, S, f)) /\ missed \in Nat
      /\ IsFiniteSet(Ahead(list, S, f)) /\ ahead \in Nat
  BY <1>2, CountsFinite DEF Lists
<1>5. /\ m \in Nat /\ \A u \in S : Rank(list, S, u) \in Nat
  BY RankOrder DEF Lists
<1>6. /\ items \in Seq(Users) /\ Len(items) \in 0..limit
      /\ rows = {u \in S : f.offset < Rank(list, S, u) /\ Rank(list, S, u) <= q}
      /\ Cardinality(rows) = Len(items)
      /\ Len(items) < limit <=> m < q
  BY <1>3, PageRanks
<1> HIDE DEF items
<1>7. /\ Len(g.got) = Len(f.got) + Len(items) /\ Seen(g) = Seen(f) \cup rows
      /\ g.stayed = f.stayed /\ g.churn = f.churn
  <2>1. f.got \in Seq(Users) /\ g.got = f.got \o items
    BY DEF Fetch, Turned, items
  <2>2. items \in Seq(Users)
    BY <1>6
  <2>3. /\ Len(g.got) = Len(f.got) + Len(items)
        /\ Members(g.got) = Members(f.got) \cup rows
    BY <2>1, <2>2, BothMembers
  <2>4. QED
    BY <2>3 DEF Seen, Turned
<1>8. IsFiniteSet(rows) /\ IsFiniteSet(S) /\ IsFiniteSet(both) /\ Cardinality(both) \in Nat
  <2>1. IsFiniteSet(S) /\ rows \in SUBSET S
    BY <1>6 DEF Lists, Orders
  <2>2. IsFiniteSet(rows) /\ both \in SUBSET rows
    BY <2>1, FS_Subset
  <2>3. QED
    BY <2>1, <2>2, FS_Subset, FS_CardinalityType
<1>9. IsFiniteSet(beyond) /\ Cardinality(beyond) \in Nat
  BY <1>8, FS_Subset, FS_CardinalityType
<1> HIDE DEF rows
<1>10. Cardinality(Seen(g)) = seen + Len(items) - Cardinality(both)
  BY <1>3, <1>6, <1>7, <1>8, FS_Union
<1>11. ahead = Cardinality(both) + Cardinality(beyond)
  <2>1. Ahead(list, S, f) = both \cup beyond
    BY <1>3, <1>5, <1>6 DEF Ahead
  <2>2. both \cap beyond = {}
    BY <1>3, <1>5, <1>6
  <2> HIDE DEF both, beyond
  <2>3. QED
    BY <1>8, <1>9, <2>1, <2>2, Together
<1> HIDE DEF q, both, m, seen, ahead, missed
<1>12. Len(g.got) - Cardinality(Seen(g)) + Cardinality(beyond) <= n
  <2>1. Len(g.got) - Cardinality(Seen(g)) + Cardinality(beyond) = Len(f.got) - seen + ahead
    <3> HIDE DEF beyond
    <3>1. Len(items) \in Nat
      BY <1>6
    <3>2. QED
      BY <1>3, <1>4, <1>7, <1>8, <1>9, <1>10, <1>11, <3>1
  <2>2. QED
    BY <1>1, <2>1
<1>13. ASSUME Len(items) < limit \/ Len(g.got) >= f.total
       PROVE  Complete(g)
  <2>1. g.stayed \ Seen(g) \subseteq Missed(list, S, f) \cup later
    BY <1>2, <1>3, <1>5, <1>6, <1>7 DEF Missed, q
  <2>2. IsFiniteSet(later) /\ Cardinality(later) \in Nat /\ Cardinality(later) <= n
    <3>1. /\ q \in Nat /\ IsFiniteSet(later) /\ Cardinality(later) \in Nat
          /\ q >= m => later = {}
          /\ q < m => Cardinality(later) <= m - q
      <4>1. q \in Nat /\ Orders(list, S)
        BY <1>3 DEF q, Lists
      <4>2. QED
        BY <4>1, Behind DEF m
    <3>2. CASE q >= m
      BY <1>1, <1>3, <3>1, <3>2, FS_EmptySet
    <3>3. CASE q < m
      <4>1. ~(Len(items) < limit) /\ Len(items) = limit
        BY <1>5, <1>6, <3>1, <3>3
      <4>2. Len(g.got) = q /\ q >= f.total
        BY <1>2, <1>3, <1>7, <1>13, <4>1 DEF q
      <4>3. m - q <= n
        BY <1>1, <1>3, <1>5, <3>1, <4>2
      <4> HIDE DEF later
      <4>4. QED
        BY <1>1, <1>3, <1>5, <3>1, <3>3, <4>3
    <3>4. QED
      BY <1>5, <3>1, <3>2, <3>3
  <2> HIDE DEF later
  <2>3. /\ IsFiniteSet(Missed(list, S, f) \cup later)
        /\ Cardinality(Missed(list, S, f) \cup later) <= missed + Cardinality(later)
    BY <1>4, <2>2, Together DEF missed
  <2>4. /\ Cardinality(g.stayed \ Seen(g)) \in Nat
        /\ Cardinality(g.stayed \ Seen(g)) <= Cardinality(Missed(list, S, f) \cup later)
    BY <2>1, <2>3, NoMore
  <2>5. Cardinality(Missed(list, S, f) \cup later) \in Nat
    BY <2>3, FS_CardinalityType
  <2>6. Cardinality(g.stayed \ Seen(g)) <= g.churn
    BY <1>1, <1>3, <1>4, <1>7, <2>2, <2>3, <2>4, <2>5
  <2>7. Len(g.got) - Cardinality(Seen(g)) <= g.churn
    <3>1. Len(g.got) \in Nat /\ Cardinality(Seen(g)) \in Nat
      BY SeenFinite
    <3> HIDE DEF beyond
    <3>2. QED
      BY <1>1, <1>3, <1>7, <1>9, <1>12, <3>1
  <2>8. QED
    BY <2>6, <2>7 DEF Complete
<1>14. ASSUME ~(Len(items) < limit), g.offset = q, g.step = "count"
       PROVE  Tracked(list, S, g)
  <2>1. g.offset = Len(g.got)
    BY <1>2, <1>3, <1>6, <1>7, <1>14 DEF q
  <2>2. Ahead(list, S, g) = beyond
    BY <1>3, <1>5, <1>6, <1>7, <1>14 DEF Ahead, q
  <2>3. Missed(list, S, g) \subseteq Missed(list, S, f)
    BY <1>2, <1>3, <1>5, <1>6, <1>7, <1>14 DEF Missed, q
  <2>4. Cardinality(Missed(list, S, g)) <= g.churn - n
    <3>1. /\ Cardinality(Missed(list, S, g)) \in Nat
          /\ Cardinality(Missed(list, S, g)) <= missed
      BY <1>4, <2>3, NoMore DEF missed
    <3>2. QED
      BY <1>1, <1>3, <1>4, <1>7, <3>1
  <2>5. QED
    BY <1>1, <1>2, <1>7, <1>12, <1>14, <2>1, <2>2, <2>4 DEF Tracked
<1>15. QED
  BY <1>13, <1>14 DEF items, q

(* A step of one export, nothing else moving.                              *)
LEMMA OneExport ==
    ASSUME RestTyped, ExportInv, users' = users, listing' = listing, NEW t \in Tabs, NEW g,
           fetch' = [fetch EXCEPT ![t] = g], ExportOK(listing, users, g)
    PROVE  ExportInv'
<1>1. fetch \in [Tabs -> Fetch]
  BY DEF RestTyped
<1>2. \A s \in Tabs : fetch'[s] = IF s = t THEN g ELSE fetch[s]
  BY <1>1
<1>3. \A s \in Tabs : ExportOK(listing, users, fetch'[s])
  BY <1>2 DEF ExportInv
<1>4. QED
  BY <1>3 DEF ExportInv

LEMMA NoFetchOK == ExportOK(listing, users, NoFetch)
BY NoFetchTyped DEF ExportOK

LEMMA ExportInit == Init => ExportInv
BY NoFetchOK DEF Init, ExportInv

(* An export begins with everything still to come.                         *)
LEMMA StartTracks ==
    ASSUME ListingInv, RestTyped, ExportInv, NEW t \in Tabs, NEW filter \in Filters,
           StartFetch(t, filter)
    PROVE  ExportInv'
<1> DEFINE S == MatchingIn(users, filter)
           g == [NoFetch EXCEPT !.step = "count", !.filter = filter, !.stayed = S]
<1>1. Orders(listing, S)
  BY MatchingOrdered
<1>2. /\ g.step = "count" /\ g.filter = filter /\ g.stayed = S
      /\ g.offset = 0 /\ g.got = << >> /\ g.churn = 0
  BY DEF NoFetch
<1>3. fetch' = [fetch EXCEPT ![t] = g] /\ users' = users /\ listing' = listing
  BY DEF StartFetch, Click, storeVars
<1> HIDE DEF g, S
<1>4. Seen(g) = {} /\ Len(g.got) = 0
  BY <1>2, EmptySeq DEF Seen, Members
<1>5. Missed(listing, S, g) = {} /\ Ahead(listing, S, g) = {}
  <2>1. \A u \in S : Rank(listing, S, u) \in 1..Cardinality(S) /\ Cardinality(S) \in Nat
    BY <1>1, RankOrder
  <2>2. \A u \in S : ~(Rank(listing, S, u) <= 0)
    BY <2>1
  <2>3. QED
    BY <1>2, <1>4, <2>2 DEF Missed, Ahead
<1>6. Cardinality({}) = 0
  BY FS_EmptySet
<1>7. Tracked(listing, S, g)
  <2>1. 0 \in 0..g.churn /\ g.step # "select"
    BY <1>2
  <2>2. QED
    BY <1>2, <1>4, <1>5, <1>6, <2>1 DEF Tracked
<1>8. ExportOK(listing, users, g)
  BY <1>2, <1>7 DEF ExportOK, S
<1>9. QED
  BY <1>3, <1>8, OneExport

(* The count is right when it is taken.                                    *)
LEMMA CountTracks ==
    ASSUME ListingInv, RestTyped, ExportInv, NEW t \in Tabs, CountUsers(t)
    PROVE  ExportInv'
<1> DEFINE f == fetch[t]
           S == MatchingIn(users, f.filter)
           g == [f EXCEPT !.step = "select", !.total = Cardinality(S)]
<1>1. f \in Fetch /\ f.filter \in Filters /\ f.step = "count" /\ f.churn \in Nat
  BY DEF RestTyped, Fetch, CountUsers
<1>2. /\ g.step = "select" /\ g.filter = f.filter /\ g.stayed = f.stayed /\ g.got = f.got
      /\ g.offset = f.offset /\ g.churn = f.churn /\ g.total = Cardinality(S)
  BY <1>1 DEF Fetch
<1>3. fetch' = [fetch EXCEPT ![t] = g] /\ users' = users /\ listing' = listing
  BY DEF CountUsers, storeVars, RestTyped
<1>4. Tracked(listing, S, f)
  BY <1>1 DEF ExportInv, ExportOK
<1>5. Cardinality(S) \in Nat
  BY <1>1, MatchingFinite
<1> HIDE DEF g, S, f
<1>6. Missed(listing, S, g) = Missed(listing, S, f) /\ Ahead(listing, S, g) = Ahead(listing, S, f)
      /\ Seen(g) = Seen(f)
  BY <1>2 DEF Missed, Ahead, Seen
<1>7. \A n \in 0..f.churn : Cardinality(S) - g.total <= n
  BY <1>1, <1>2, <1>5
<1>8. Tracked(listing, S, g)
  BY <1>2, <1>4, <1>6, <1>7 DEF Tracked
<1>9. ExportOK(listing, users, g)
  BY <1>2, <1>8 DEF ExportOK, S
<1>10. QED
  BY <1>3, <1>9, OneExport

(* A page is fetched.                                                      *)
LEMMA SelectTracks ==
    ASSUME ListingInv, RestTyped, RestTyped', ExportInv, NEW t \in Tabs, SelectPage(t)
    PROVE  ExportInv'
<1> DEFINE f == fetch[t]
           S == MatchingIn(users, f.filter)
<1>1. f \in Fetch /\ f.filter \in Filters /\ f.step = "select"
  BY DEF RestTyped, Fetch, SelectPage
<1>2. PageSize \in Nat \ {0} /\ Limit(PageSize) = PageSize
  BY ConsoleAssumption DEF ConsoleAssumption, Limit
<1>3. PICK found \in Found(f.filter) :
        LET items == Page(found, f.offset, Limit(PageSize))
            all   == f.got \o items
            over  == Len(items) < PageSize \/ Len(all) >= f.total
        IN fetch' = [fetch EXCEPT
                       ![t].got = all,
                       ![t].step = IF over THEN "done" ELSE "count",
                       ![t].offset = IF over THEN @ ELSE @ + PageSize]
  BY DEF SelectPage
<1> DEFINE items == Page(found, f.offset, PageSize)
           all == f.got \o items
           over == Len(items) < PageSize \/ Len(all) >= f.total
           g == [f EXCEPT !.got = all, !.step = IF over THEN "done" ELSE "count",
                          !.offset = IF over THEN @ ELSE @ + PageSize]
<1>4. /\ fetch' = [fetch EXCEPT ![t] = g]
      /\ users' = users /\ listing' = listing
  BY <1>2, <1>3 DEF SelectPage, storeVars, RestTyped
<1> HIDE DEF items
<1>5. /\ g.got = f.got \o items /\ g.stayed = f.stayed /\ g.churn = f.churn /\ g.filter = f.filter
      /\ g.step = IF over THEN "done" ELSE "count"
      /\ g.offset = IF over THEN f.offset ELSE f.offset + PageSize
  BY <1>1 DEF Fetch
<1>6. g \in Fetch
  <2> HIDE DEF g
  <2>1. fetch'[t] = g
    BY <1>4 DEF RestTyped
  <2>2. QED
    BY <2>1 DEF RestTyped
<1> HIDE DEF g, all
<1>7. Lists(found, listing, S)
  <2>1. Orders(listing, S)
    BY <1>1, MatchingOrdered
  <2>2. found \in Seq(Users)
    BY FoundTyped
  <2>3. /\ Len(found) = Cardinality(S)
        /\ \A k \in 1..Len(found) : found[k] \in S /\ Rank(listing, S, found[k]) = k
    BY <1>1, FoundRanked
  <2>4. QED
    BY <2>1, <2>2, <2>3 DEF Lists
<1>8. Tracked(listing, S, f)
  BY <1>1 DEF ExportInv, ExportOK
<1>9. Turned(f, g, Page(found, f.offset, PageSize))
  BY <1>5 DEF Turned, items
<1> HIDE DEF f, S
<1>10. /\ Len(items) < PageSize \/ Len(g.got) >= f.total => Complete(g)
       /\ ~(Len(items) < PageSize) /\ g.offset = f.offset + PageSize /\ g.step = "count"
             => Tracked(listing, S, g)
  BY <1>1, <1>2, <1>6, <1>7, <1>8, <1>9, TrackedPage DEF items
<1>11. ExportOK(listing, users, g)
  <2>1. CASE over
    <3>1. g.step = "done" /\ Complete(g)
      BY <1>5, <1>10, <2>1 DEF all
    <3>2. QED
      BY <3>1 DEF ExportOK
  <2>2. CASE ~over
    <3>1. g.step = "count" /\ Tracked(listing, S, g)
      BY <1>5, <1>10, <2>2
    <3>2. QED
      BY <1>5, <3>1 DEF ExportOK, S
  <2>3. QED
    BY <2>1, <2>2
<1>12. QED
  BY <1>4, <1>11, OneExport

(* One row comes, goes or changes under the exports.                       *)
LEMMA WatchedTracks ==
    ASSUME ListingInv, ListingInv', RestTyped, RestTyped', ExportInv, fetch' = Watched(users'),
           NEW x \in Users,
           \A u \in Users \ {x} : users'[u] = users[u],
           \A u, v \in Users \ {x} : Before(listing, v, u) <=> Before(listing', v, u),
           listing' = listing \/ users[x] = Null \/ users'[x] = Null
    PROVE  ExportInv'
<1> SUFFICES ASSUME NEW t \in Tabs PROVE ExportOK(listing', users', fetch'[t])
  BY DEF ExportInv
<1>1. fetch[t] \in Fetch /\ fetch'[t] \in Fetch /\ fetch[t].filter \in Filters
  BY DEF RestTyped, Fetch
<1>2. PICK f \in Fetch : f = fetch[t]
  BY <1>1
<1>3. PICK g \in Fetch : g = fetch'[t]
  BY <1>1
<1>4. PICK list \in Seq(Users) : list = listing
  BY DEF ListingInv
<1>5. PICK next \in Seq(Users) : next = listing'
  BY DEF ListingInv
<1>6. PICK S \in SUBSET Users : S = MatchingIn(users, f.filter)
  BY DEF MatchingIn
<1>7. PICK T \in SUBSET Users : T = MatchingIn(users', f.filter)
  BY DEF MatchingIn
<1>8. Orders(list, S)
  BY <1>1, <1>2, <1>4, <1>6, MatchingOrdered
<1>9. Orders(next, T)
  <2>1. ListingInv' => (\A filter \in Filters : Orders(listing, MatchingIn(users, filter)))'
    BY MatchingOrdered, PTL
  <2>2. \A filter \in Filters : Orders(listing', MatchingIn(users', filter))
    BY <2>1
  <2>3. QED
    BY <1>1, <1>2, <1>5, <1>7, <2>2
<1>10. \A u \in Users \ {x} : u \in S <=> u \in T
  BY <1>6, <1>7 DEF MatchingIn
<1>11. \A u, v \in Users \ {x} : Before(list, v, u) <=> Before(next, v, u)
  BY <1>4, <1>5
<1>12. next = list \/ x \notin S \/ x \notin T
  BY <1>4, <1>5, <1>6, <1>7 DEF MatchingIn, Matches
<1>13. CASE ~Fetching(t)
  <2>1. g = f /\ f.step \notin {"count", "select"}
    BY <1>2, <1>3, <1>13 DEF Watched, Fetching
  <2>2. f.step = "done" => Complete(f)
    BY <1>2 DEF ExportInv, ExportOK
  <2>3. QED
    BY <1>3, <2>1, <2>2 DEF ExportOK
<1>14. CASE Fetching(t)
  <2> DEFINE moved == (S \ T) \cup (T \ S)
  <2>1. Tracked(list, S, f)
    BY <1>2, <1>4, <1>6, <1>14 DEF ExportInv, ExportOK, Fetching
  <2>2. g = [f EXCEPT !.stayed = @ \cap T, !.churn = @ + Cardinality(moved)]
    BY <1>2, <1>3, <1>6, <1>7, <1>14 DEF Watched
  <2> HIDE DEF moved
  <2>3. Churned(f, g, T, Cardinality(moved)) /\ g.filter = f.filter
    BY <2>2 DEF Churned, Fetch
  <2>4. Tracked(next, T, g)
    <3>1. CASE x \in T /\ x \notin S
      <4>1. T = S \cup {x} /\ moved = {x}
        BY <1>10, <3>1 DEF moved
      <4>2. Cardinality(moved) = 1
        BY <4>1, FS_Singleton
      <4>3. Joins(list, S, next, x)
        BY <1>8, <1>9, <1>11, <3>1, <4>1 DEF Joins
      <4>4. Churned(f, g, S \cup {x}, 1)
        BY <2>3, <4>1, <4>2
      <4>5. QED
        BY <2>1, <4>1, <4>3, <4>4, TrackedJoins
    <3>2. CASE x \in S /\ x \notin T
      <4>1. S = T \cup {x} /\ moved = {x}
        BY <1>10, <3>2 DEF moved
      <4>2. Cardinality(moved) = 1
        BY <4>1, FS_Singleton
      <4>3. Joins(next, T, list, x)
        BY <1>8, <1>9, <1>11, <3>2, <4>1 DEF Joins
      <4>4. Churned(f, g, T, 1) /\ Tracked(list, T \cup {x}, f)
        BY <2>1, <2>3, <4>1, <4>2
      <4>5. QED
        BY <4>3, <4>4, TrackedLeaves
    <3>3. CASE x \in S <=> x \in T
      <4>0. S \subseteq T /\ T \subseteq S
        BY <1>10, <3>3
      <4>1. S = T /\ moved = {}
        BY <4>0 DEF moved
      <4>2. Cardinality(moved) = 0
        BY <4>1, FS_EmptySet
      <4>3. \A u, v \in S : Before(list, v, u) <=> Before(next, v, u)
        BY <1>11, <1>12, <4>1
      <4>4. Churned(f, g, S, 0)
        BY <2>3, <4>1, <4>2
      <4>5. QED
        BY <2>1, <4>1, <4>3, <4>4, TrackedSame
    <3>4. QED
      BY <3>1, <3>2, <3>3
  <2>5. g.step # "done"
    BY <1>2, <1>14, <2>3 DEF Churned, Fetching
  <2>6. QED
    BY <1>3, <1>5, <1>7, <2>3, <2>4, <2>5 DEF ExportOK
<1>15. QED
  BY <1>13, <1>14

(* The steps that change a row.                                            *)
LEMMA CreateTracks ==
    ASSUME AllInv, ListingInv', RestTyped', ExportInv, NEW t \in Tabs, Create(t)
    PROVE  ExportInv'
<1>1. /\ ListingInv /\ RestTyped /\ users \in [Users -> UserRow \cup {Null}]
      /\ Target(t) \in Users /\ ~Exists(Target(t))
  BY SendingTyped DEF AllInv, ConsoleInv, ConsoleTyped, Create, Sending, CreateUser
<1>2. PICK x \in Users : x = Target(t)
  BY <1>1
<1>3. PICK pw \in Secrets, i \in 0..Len(listing) :
        /\ users' = [users EXCEPT ![x] = NewRow(pw, Amount(t), 0, 1)]
        /\ listing' = ListedAt(listing, i, x)
  BY <1>2 DEF Create, CreateUser
<1>4. users[x] = Null /\ fetch' = Watched(users')
  BY <1>1, <1>2 DEF Create, Exists
<1>5. \A u \in Users \ {x} : users'[u] = users[u]
  BY <1>1, <1>3
<1>6. listing \in Seq(Users) /\ \A j \in DOMAIN listing : listing[j] # x
  BY <1>1, <1>2 DEF ListingInv
<1>7. \A u, v \in Users \ {x} : Before(listing, v, u) <=> Before(listing', v, u)
  BY <1>3, <1>6, BeforeInserted
<1>8. QED
  BY <1>1, <1>4, <1>5, <1>7, WatchedTracks

LEMMA DeleteTracks ==
    ASSUME AllInv, ListingInv', RestTyped', ExportInv, NEW t \in Tabs, Delete(t)
    PROVE  ExportInv'
<1>1. /\ ListingInv /\ RestTyped /\ users \in [Users -> UserRow \cup {Null}]
      /\ Target(t) \in Users
  BY SendingTyped DEF AllInv, ConsoleInv, ConsoleTyped, Delete, Sending
<1>2. PICK x \in Users : x = Target(t)
  BY <1>1
<1>3. PICK i \in DOMAIN listing :
        /\ users' = [users EXCEPT ![x] = Null]
        /\ listing[i] = x
        /\ listing' = UnlistedAt(listing, i)
  BY <1>2 DEF Delete, DeleteUser
<1>4. users'[x] = Null /\ fetch' = Watched(users')
  BY <1>1, <1>3 DEF Delete
<1>5. \A u \in Users \ {x} : users'[u] = users[u]
  BY <1>1, <1>3
<1>6. listing \in Seq(Users) /\ Distinct(listing)
  BY <1>1 DEF ListingInv
<1>7. \A u, v \in Users \ {x} : Before(listing, v, u) <=> Before(listing', v, u)
  BY <1>3, <1>6, BeforeRemoved
<1>8. QED
  BY <1>1, <1>4, <1>5, <1>7, WatchedTracks

LEMMA DisableTracks ==
    ASSUME AllInv, ListingInv', RestTyped', ExportInv, NEW t \in Tabs, Disable(t)
    PROVE  ExportInv'
<1>1. /\ ListingInv /\ RestTyped /\ users \in [Users -> UserRow \cup {Null}]
      /\ Target(t) \in Users
  BY SendingTyped DEF AllInv, ConsoleInv, ConsoleTyped, Disable, Sending
<1>2. PICK x \in Users : x = Target(t)
  BY <1>1
<1>3. \A u \in Users \ {x} : users'[u] = users[u]
  BY <1>1, <1>2 DEF Disable, SetUserStatus, UpdateUser, storeVars
<1>4. listing' = listing /\ fetch' = Watched(users')
  BY DEF Disable
<1>5. \A u, v \in Users \ {x} : Before(listing, v, u) <=> Before(listing', v, u)
  BY <1>4
<1>6. QED
  BY <1>1, <1>3, <1>4, <1>5, WatchedTracks

LEMMA CommitTracks ==
    ASSUME AllInv, ListingInv', RestTyped', ExportInv, NEW t \in Tabs, CommitExtend(t)
    PROVE  ExportInv'
<1>1. /\ ListingInv /\ RestTyped /\ users \in [Users -> UserRow \cup {Null}]
      /\ extending[t].user \in Users
  BY DEF AllInv, ConsoleInv, ConsoleTyped, CommitExtend, Extension
<1>2. PICK x \in Users : x = extending[t].user
  BY <1>1
<1>3. \A u \in Users \ {x} : users'[u] = users[u]
  BY <1>1, <1>2 DEF CommitExtend
<1>4. listing' = listing /\ fetch' = Watched(users')
  BY DEF CommitExtend
<1>5. \A u, v \in Users \ {x} : Before(listing, v, u) <=> Before(listing', v, u)
  BY <1>4
<1>6. QED
  BY <1>1, <1>3, <1>4, <1>5, WatchedTracks

LEMMA ExportStep ==
    ASSUME AllInv, AllInv', ExportInv, [Next]_vars
    PROVE  ExportInv'
<1>0. ListingInv /\ RestTyped /\ ListingInv' /\ RestTyped'
  BY DEF AllInv
<1>1. ASSUME users' = users, listing' = listing, fetch' = fetch PROVE ExportInv'
  BY <1>1 DEF ExportInv
<1>2. ASSUME NEW t \in Tabs, users' = users, listing' = listing,
             fetch' = [fetch EXCEPT ![t] = NoFetch]
      PROVE  ExportInv'
  BY <1>0, <1>2, NoFetchOK, OneExport
<1>3. ASSUME NEW t \in Tabs, NEW click \in Clicks, Submit(t, click)
      PROVE  ExportInv'
  BY <1>2, <1>3 DEF Submit, Click, storeVars
<1>4. ASSUME NEW t \in Tabs, NEW filter \in Filters, StartFetch(t, filter)
      PROVE  ExportInv'
  BY <1>0, <1>4, StartTracks
<1>5. ASSUME NEW t \in Tabs,
             \/ RequestFails(t) \/ BeginExtend(t) \/ AbortExtend(t) \/ SetTag(t)
             \/ Show(t) \/ Replaced(t)
      PROVE  ExportInv'
  BY <1>1, <1>5 DEF RequestFails, BeginExtend, AbortExtend, SetTag, Show, Replaced, storeVars
<1>6. ASSUME NEW t \in Tabs, Create(t) \/ Delete(t) \/ Disable(t) \/ CommitExtend(t)
      PROVE  ExportInv'
  BY <1>0, <1>6, CreateTracks, DeleteTracks, DisableTracks, CommitTracks
<1>7. ASSUME NEW t \in Tabs, CountUsers(t) \/ SelectPage(t)
      PROVE  ExportInv'
  BY <1>0, <1>7, CountTracks, SelectTracks
<1>8. ASSUME NEW t \in Tabs, FetchFails(t) \/ Close(t) PROVE ExportInv'
  BY <1>2, <1>8 DEF FetchFails, Close, storeVars
<1>9. CASE Tick \/ UNCHANGED vars
  BY <1>1, <1>9 DEF Tick, tabVars, vars, storeVars
<1>10. QED
  BY <1>3, <1>4, <1>5, <1>6, <1>7, <1>8, <1>9 DEF Next, TabStep

(* An export that ran to its end has missed no more of the users that were *)
(* there all the time than there were users coming and going meanwhile,    *)
(* and has repeated no more, whatever the table, the pages and the status: *)
(* LIMIT and OFFSET without a transaction cost one row for each change     *)
(* (ui.go:1966-2000 over store.go:711-784).                                *)
THEOREM ExportsAreNearlyComplete == Spec => []ExportNearlyComplete
<1>1. Init => ExportInv
  BY ExportInit
<1>2. AllInv /\ AllInv' /\ ExportInv /\ [Next]_vars => ExportInv'
  BY ExportStep
<1>3. ExportInv => ExportNearlyComplete
  BY DEF ExportInv, ExportOK, Complete, Seen, Members, ExportNearlyComplete
<1>4. QED
  BY <1>1, <1>2, <1>3, AllInvariant, PTL DEF Spec
===============================================================================
