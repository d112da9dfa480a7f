----------------------------- MODULE AdminConsole -----------------------------
(***************************************************************************)
(* The administrators' page (internal/control/ui.go) over the store: what  *)
(* one click turns into.                                                   *)
(*                                                                         *)
(* The page has no transaction that spans two requests.  Creating a user   *)
(* for some days is a POST and an extension; a CSV import is up to three   *)
(* requests for each line; a batch is one request for each selected user;  *)
(* an export fetches page after page.  Several pages may be open at once,  *)
(* and the requests of all of them interleave at the store.                *)
(*                                                                         *)
(* Two handlers are not one statement: ExtendUserDays reads expires_at in  *)
(* one and writes it in another, ListUsers counts in one and selects in    *)
(* another.  Every other request here is one action.                       *)
(*                                                                         *)
(* A click is a sequence of blocks, a block a sequence of requests sent    *)
(* one after the other inside one try: a failure ends the block, is        *)
(* counted, and the next block goes on.  Nothing stops an administrator    *)
(* from clicking again while a click is at work: what is a tab here is one *)
(* such activity, of this page or of another administrator's.  The page of *)
(* any of them may be closed or reloaded between two of its requests.      *)
(***************************************************************************)
EXTENDS UserStore, Sequences

CONSTANTS
    Tabs,             \* open pages
    Day,              \* 24*3600 seconds
    PageSize,         \* what the page asks for (200)
    MaxPage,          \* the largest limit ListUsers takes (200)
    DefaultPage,      \* the limit it takes instead of a larger one (20)
    InitialListing,   \* the users of the database, in the order of ListUsers
    InitialExpiries,  \* their expires_at
    Clicks,           \* sequences of blocks the administrators may start
    Filters,          \* filters of an export: "any", "enabled"
    MaxWait,          \* bound: how long a statement waits for the connection
    MaxTime,          \* bound on clock
    MaxClicks         \* bound on the number of clicks

VARIABLES
    listing,    \* the users by created_at, newest first: ListUsers' ORDER BY
    todo,       \* tab -> blocks not finished; the first one is being sent
    report,     \* tab -> whether the click has a failure to show, or shows it
    extending,  \* tab -> the ExtendUserDays between its two statements, or Null
    fetch,      \* tab -> the export being fetched, or its result
    clicks,     \* clicks so far
    promise,    \* history: user -> the expiry its extensions add up to
    asked       \* history: user -> what its creation was to be followed by

tabVars  == <<listing, todo, report, extending, fetch, clicks>>
histVars == <<promise, asked>>
vars     == <<storeVars, tabVars, histVars>>

Larger(m, n) == IF m < n THEN n ELSE m

Smaller(m, n) == IF m < n THEN m ELSE n

Request == [act : {"create", "extend", "tag", "disable", "delete"},
            user : Users, n : Nat]

(* The requests of one try block, all of them about one user.              *)
Block == {b \in Seq(Request) : b # << >> /\ \A i \in DOMAIN b : b[i].user = b[1].user}

(* `overtaken` is history: the user was created anew since the first       *)
(* statement read the expiry of the row that had its name before.          *)
Extension == [user : Users, days : Nat, now : Nat, base : Nat,
              awaited : BOOLEAN, overtaken : BOOLEAN]

Fetch == [step : {"idle", "count", "select", "done"}, filter : Filters,
          offset : Nat, got : Seq(Users), total : Nat,
          stayed : SUBSET Users, churn : Nat]

Follow == [by : Tabs, days : BOOLEAN, off : BOOLEAN]

ASSUME ConsoleAssumption ==
    /\ {Day, PageSize, MaxPage, DefaultPage} \subseteq Nat \ {0}
    /\ {MaxWait, MaxTime, MaxClicks} \subseteq Nat
    /\ PageSize <= MaxPage
    /\ InitialListing \in Seq(Users)
    /\ \A i, j \in DOMAIN InitialListing :
         InitialListing[i] = InitialListing[j] => i = j
    /\ InitialExpiries \subseteq Nat
    /\ Clicks \subseteq Seq(Block)
    /\ Filters # {}
    /\ Null \notin Extension \cup Follow

-----------------------------------------------------------------------------
(* What the page sends.                                                    *)

Req(act, u, n) == <<[act |-> act, user |-> u, n |-> n]>>

(* The form of one user: created permanent, then extended.                 *)
CreateForm(u, days) ==
    << Req("create", u, 0) \o (IF days > 0 THEN Req("extend", u, days)
                                           ELSE << >>) >>

(* One line of a CSV file.  The line's status is not part of the POST.     *)
ImportLine(u, expires, tag, off) ==
    << Req("create", u, expires)
         \o (IF tag THEN Req("tag", u, 0) ELSE << >>)
         \o (IF off THEN Req("disable", u, 0) ELSE << >>) >>

(* One request for each selected user, in the order they were selected.    *)
BatchExtend(names, days) == [i \in DOMAIN names |-> Req("extend", names[i], days)]

BatchDelete(names) == [i \in DOMAIN names |-> Req("delete", names[i], 0)]

-----------------------------------------------------------------------------
Sending(t, act) == todo[t] # << >> /\ Head(Head(todo[t])).act = act

Target(t) == Head(Head(todo[t])).user

Amount(t) == Head(Head(todo[t])).n

Fetching(t) == fetch[t].step \in {"count", "select"}

AtWork(t) == todo[t] # << >> \/ Fetching(t) \/ report[t] # "none"

(* A slip: the failure is not counted.                                     *)
Refused_Slip(t) ==
    /\ todo' = [todo EXCEPT ![t] = Tail(@)]
    /\ UNCHANGED report

(* The catch: the rest of the block is dropped, the failure counted.       *)
Refused(t) ==
    /\ todo' = [todo EXCEPT ![t] = Tail(@)]
    /\ report' = [report EXCEPT ![t] = "failed"]

Answered(t) ==
    /\ todo' = [todo EXCEPT ![t] =
                  IF Len(Head(@)) = 1 THEN Tail(@)
                  ELSE <<Tail(Head(@))>> \o Tail(@)]
    /\ UNCHANGED report

(* The request has taken effect; its answer may be lost.                   *)
Replied(t) == Answered(t) \/ Refused(t)

(* The users a filter of ListUsers lets through: the filters by status,    *)
(* not those by expiry, which move with the clock, by name or by tag.      *)
Matches(row, filter) == row # Null /\ (filter = "enabled" => row.status = 1)

MatchingIn(rows, filter) == {u \in Users : Matches(rows[u], filter)}

(* History: what changes under an export while it runs.                    *)
Watched(rows) ==
    [t \in Tabs |->
       LET before == MatchingIn(users, fetch[t].filter)
           after  == MatchingIn(rows, fetch[t].filter)
       IN IF Fetching(t)
          THEN [fetch[t] EXCEPT
                  !.stayed = @ \cap after,
                  !.churn = @ + Cardinality((before \ after) \cup (after \ before))]
          ELSE fetch[t]]

Extending(u) == {t \in Tabs : extending[t] # Null /\ extending[t].user = u}

(* Nobody waits for the extension any more; it is not called back.         *)
Unawaited(t) ==
    IF extending[t] = Null THEN extending
    ELSE [extending EXCEPT ![t].awaited = FALSE]

(* History: the extensions under way belong to the last user of the name.  *)
Overtaken(u) ==
    [t \in Tabs |-> IF t \in Extending(u)
                    THEN [extending[t] EXCEPT !.overtaken = TRUE]
                    ELSE extending[t]]

(* The requests that were to follow the creation of u had their effect.    *)
AsAsked(u) ==
    /\ asked[u].days => users[u].expires_at > 0
    /\ asked[u].off => users[u].status = 0

(* History: nothing tells the administrator of t of the users that its     *)
(* clicks left half-done, any more.                                        *)
Forgotten(t) ==
    [u \in Users |->
       IF asked[u] # Null /\ asked[u].by = t /\ Exists(u) /\ ~AsAsked(u)
       THEN Null ELSE asked[u]]

NoFetch == [step |-> "idle", filter |-> CHOOSE f \in Filters : TRUE,
            offset |-> 0, got |-> << >>, total |-> 0, stayed |-> {}, churn |-> 0]

Listed == {InitialListing[i] : i \in DOMAIN InitialListing}

Init ==
    /\ clock = 0
    /\ \E pw \in Secrets, expires \in InitialExpiries :
         /\ users = [u \in Users |->
                       IF u \in Listed THEN NewRow(pw, expires, 0, 1) ELSE Null]
         /\ promise = [u \in Users |-> IF u \in Listed THEN expires ELSE 0]
    /\ active_ips = [u \in Users |-> [ip \in IPs |-> Null]]
    /\ listing = InitialListing
    /\ todo = [t \in Tabs |-> << >>]
    /\ report = [t \in Tabs |-> "none"]
    /\ extending = [t \in Tabs |-> Null]
    /\ fetch = [t \in Tabs |-> NoFetch]
    /\ clicks = 0
    /\ asked = [u \in Users |-> Null]

-----------------------------------------------------------------------------
(* A click starts an activity that is over.                                *)
Click(t) ==
    /\ ~AtWork(t)
    /\ clicks < MaxClicks
    /\ clicks' = clicks + 1
    /\ UNCHANGED <<storeVars, listing, report, extending, histVars>>

Submit(t, click) ==
    /\ Click(t)
    /\ todo' = [todo EXCEPT ![t] = click]
    /\ fetch' = [fetch EXCEPT ![t] = NoFetch]

(* Whatever makes a request fail before it has an effect, or hides that it *)
(* may still have one: an ExtendUserDays under way is not called back.     *)
RequestFails(t) ==
    /\ todo[t] # << >>
    /\ Refused(t)
    /\ extending' = Unawaited(t)
    /\ UNCHANGED <<storeVars, listing, fetch, clicks, histVars>>

(* The activity has come to its end: the failures counted are shown.       *)
Show(t) ==
    /\ todo[t] = << >>
    /\ report[t] = "failed"
    /\ report' = [report EXCEPT ![t] = "shown"]
    /\ UNCHANGED <<storeVars, listing, todo, extending, fetch, clicks, histVars>>

(* A failure is not shown for long: a toast goes after some seconds, and   *)
(* the one status line of the form takes the outcome, success included, of *)
(* whatever creation of the page ends next.                                *)
Replaced(t) ==
    /\ report[t] = "shown"
    /\ report' = [report EXCEPT ![t] = "none"]
    /\ asked' = Forgotten(t)
    /\ UNCHANGED <<storeVars, listing, todo, extending, fetch, clicks, promise>>

(* The page is closed, reloaded or left: the requests not sent never are.  *)
Close(t) ==
    /\ AtWork(t)
    /\ todo' = [todo EXCEPT ![t] = << >>]
    /\ report' = [report EXCEPT ![t] = "none"]
    /\ fetch' = [fetch EXCEPT ![t] = NoFetch]
    /\ extending' = Unawaited(t)
    /\ asked' = Forgotten(t)
    /\ UNCHANGED <<storeVars, listing, clicks, promise>>

(* Where a new row appears in the order of ListUsers: the order within one *)
(* second is the database's, and the clock may have been set back.         *)
ListedAt(list, i, u) ==
    [j \in 1..(Len(list) + 1) |->
       IF j <= i THEN list[j] ELSE IF j = i + 1 THEN u ELSE list[j - 1]]

UnlistedAt(list, i) ==
    [j \in 1..(Len(list) - 1) |-> IF j < i THEN list[j] ELSE list[j + 1]]

(* What the rest of the block is to do to the new user.                    *)
FollowUp(t) ==
    LET rest == Tail(Head(todo[t]))
    IN [by |-> t,
        days |-> \E i \in DOMAIN rest : rest[i].act = "extend",
        off  |-> \E i \in DOMAIN rest : rest[i].act = "disable"]

(* POST /api/admin/users.                                                  *)
Create(t) ==
    /\ Sending(t, "create")
    /\ LET u == Target(t)
       IN \E pw \in Secrets, i \in 0..Len(listing) :
            /\ CreateUser(u, pw, Amount(t), 0, 1)
            /\ listing' = ListedAt(listing, i, u)
            /\ promise' = [promise EXCEPT ![u] = Amount(t)]
            /\ extending' = Overtaken(u)
            /\ asked' = [asked EXCEPT ![u] = FollowUp(t)]
    /\ Replied(t)
    /\ fetch' = Watched(users')
    /\ UNCHANGED clicks

(* ExtendUserDays, first statement.  The clock was read before it.         *)
BeginExtend(t) ==
    /\ Sending(t, "extend")
    /\ extending[t] = Null
    /\ Amount(t) > 0
    /\ Exists(Target(t))
    /\ \E now \in Larger(0, clock - MaxWait)..clock :
         extending' = [extending EXCEPT ![t] =
                         [user |-> Target(t), days |-> Amount(t), now |-> now,
                          base |-> users[Target(t)].expires_at,
                          awaited |-> TRUE, overtaken |-> FALSE]]
    /\ UNCHANGED <<storeVars, listing, todo, report, fetch, clicks, histVars>>

(* A slip: the days count from today, whatever the user had left.          *)
NextExpiry_Slip(e) == e.now + e.days * Day

NextExpiry(e) == Larger(e.base, e.now) + e.days * Day

(* Second statement: UPDATE ... WHERE username = ?, a success even when no *)
(* row has the name any more.  The days are promised if no other extension *)
(* of this user is between its two statements; one that was overtaken may  *)
(* take away from what was promised to the new user, and adds nothing.     *)
CommitExtend(t) ==
    /\ extending[t] # Null
    /\ LET e == extending[t]
           u == e.user
       IN /\ users' = IF Exists(u)
                      THEN [users EXCEPT ![u].expires_at = NextExpiry(e)]
                      ELSE users
          /\ promise' = [promise EXCEPT ![u] =
                            IF ~Exists(u) THEN @
                            ELSE IF e.overtaken THEN Smaller(@, NextExpiry(e))
                            ELSE IF Extending(u) = {t}
                                 THEN Larger(@, e.now) + e.days * Day
                            ELSE @]
          /\ IF e.awaited THEN Replied(t) ELSE UNCHANGED <<todo, report>>
    /\ extending' = [extending EXCEPT ![t] = Null]
    /\ fetch' = Watched(users')
    /\ UNCHANGED <<clock, active_ips, listing, clicks, asked>>

(* The second statement fails, or the cancelled request ends before it.    *)
AbortExtend(t) ==
    /\ extending[t] # Null
    /\ IF extending[t].awaited THEN Refused(t) ELSE UNCHANGED <<todo, report>>
    /\ extending' = [extending EXCEPT ![t] = Null]
    /\ UNCHANGED <<storeVars, listing, fetch, clicks, histVars>>

(* No row, an error.  The tag itself decides nothing here.                 *)
SetTag(t) ==
    /\ Sending(t, "tag")
    /\ Exists(Target(t))
    /\ Replied(t)
    /\ UNCHANGED <<storeVars, listing, extending, fetch, clicks, histVars>>

(* No row, no error.                                                       *)
Disable(t) ==
    /\ Sending(t, "disable")
    /\ IF Exists(Target(t)) THEN SetUserStatus(Target(t), 0)
                            ELSE UNCHANGED storeVars
    /\ Replied(t)
    /\ fetch' = Watched(users')
    /\ UNCHANGED <<listing, extending, clicks, histVars>>

(* No row, an error.                                                       *)
Delete(t) ==
    /\ Sending(t, "delete")
    /\ DeleteUser(Target(t))
    /\ \E i \in DOMAIN listing :
         /\ listing[i] = Target(t)
         /\ listing' = UnlistedAt(listing, i)
    /\ promise' = [promise EXCEPT ![Target(t)] = 0]
    /\ asked' = [asked EXCEPT ![Target(t)] = Null]
    /\ Replied(t)
    /\ fetch' = Watched(users')
    /\ UNCHANGED <<extending, clicks>>

-----------------------------------------------------------------------------
(* The export, and the health check, which fetches every user.             *)
StartFetch(t, filter) ==
    /\ Click(t)
    /\ fetch' = [fetch EXCEPT ![t] =
                   [NoFetch EXCEPT !.step = "count", !.filter = filter,
                                   !.stayed = MatchingIn(users, filter)]]
    /\ UNCHANGED todo

(* ListUsers, first statement.                                             *)
CountUsers(t) ==
    /\ fetch[t].step = "count"
    /\ fetch' = [fetch EXCEPT ![t].step = "select",
                   ![t].total = Cardinality(MatchingIn(users, fetch[t].filter))]
    /\ UNCHANGED <<storeVars, listing, todo, report, extending, clicks, histVars>>

(* A slip: the largest page is refused.                                    *)
Limit_Slip(limit) ==
    IF limit <= 0 \/ limit >= MaxPage THEN DefaultPage ELSE limit

Limit(limit) == IF limit <= 0 \/ limit > MaxPage THEN DefaultPage ELSE limit

(* The rows found, in the order of the listing: the k-th is at place[k].   *)
Found(filter) ==
    LET places == {i \in DOMAIN listing : Matches(users[listing[i]], filter)}
    IN {[k \in DOMAIN place |-> listing[place[k]]] :
          place \in {p \in [1..Cardinality(places) -> places] :
                       \A j, k \in DOMAIN p : j < k => p[j] < p[k]}}

(* Second statement: ORDER BY created_at DESC LIMIT ? OFFSET ?.            *)
Page(found, offset, limit) ==
    LET last == IF offset + limit < Len(found) THEN offset + limit ELSE Len(found)
    IN SubSeq(found, offset + 1, last)

(* The page's loop ends on a short page, or when it has `total` rows.      *)
SelectPage(t) ==
    /\ fetch[t].step = "select"
    /\ \E found \in Found(fetch[t].filter) :
         LET items == Page(found, fetch[t].offset, Limit(PageSize))
             all   == fetch[t].got \o items
             over  == Len(items) < PageSize \/ Len(all) >= fetch[t].total
         IN fetch' = [fetch EXCEPT
                        ![t].got = all,
                        ![t].step = IF over THEN "done" ELSE "count",
                        ![t].offset = IF over THEN @ ELSE @ + PageSize]
    /\ UNCHANGED <<storeVars, listing, todo, report, extending, clicks, histVars>>

(* The loop has no catch: nothing is exported, the page shows the error.   *)
FetchFails(t) ==
    /\ Fetching(t)
    /\ fetch' = [fetch EXCEPT ![t] = NoFetch]
    /\ report' = [report EXCEPT ![t] = "failed"]
    /\ UNCHANGED <<storeVars, listing, todo, extending, clicks, histVars>>

Tick ==
    /\ clock < MaxTime
    /\ clock' = clock + 1
    /\ UNCHANGED <<users, active_ips, tabVars, histVars>>

(* What a tab, and the handler of its request, do once it was clicked.     *)
TabStep(t) ==
    \/ RequestFails(t) \/ Show(t) \/ Replaced(t) \/ Close(t)
    \/ Create(t)
    \/ BeginExtend(t) \/ CommitExtend(t) \/ AbortExtend(t)
    \/ SetTag(t) \/ Disable(t) \/ Delete(t)
    \/ CountUsers(t) \/ SelectPage(t) \/ FetchFails(t)

Next ==
    \/ \E t \in Tabs :
         \/ \E click \in Clicks : Submit(t, click)
         \/ \E filter \in Filters : StartFetch(t, filter)
         \/ TabStep(t)
    \/ Tick

Spec == Init /\ [][Next]_vars

-----------------------------------------------------------------------------
(* Types; every user of the table is in the listing, once (the primary key *)
(* of table users).                                                        *)
TypeOK ==
    /\ StoreTypeOK
    /\ listing \in Seq(Users)
    /\ {listing[i] : i \in DOMAIN listing} = {u \in Users : Exists(u)}
    /\ Len(listing) = Cardinality({u \in Users : Exists(u)})
    /\ todo \in [Tabs -> Seq(Block)]
    /\ report \in [Tabs -> {"none", "failed", "shown"}]
    /\ extending \in [Tabs -> Extension \cup {Null}]
    /\ fetch \in [Tabs -> Fetch]
    /\ clicks \in 0..MaxClicks
    /\ promise \in [Users -> Nat]
    /\ asked \in [Users -> Follow \cup {Null}]

(* A user keeps at least what it was created with and the days of every    *)
(* extension that no other one of the same user overlapped, with one       *)
(* exception: an extension that had read the row of the last user of the   *)
(* name overwrites the expiry of the new one.  Even that loses only what   *)
(* the expiry it writes falls short of.  (store.go:946-962)                *)
ExtensionsKept ==
    \A u \in Users : Exists(u) => users[u].expires_at >= promise[u]

(* An export that ran to its end misses no more of the users that were     *)
(* there all the time than there were users coming and going meanwhile,    *)
(* and repeats no more: with nobody else at work it is complete.  This is  *)
(* of exports without a filter or by status.                               *)
(* (ui.go:1966-2000 over store.go:711-784)                                 *)
ExportNearlyComplete ==
    \A t \in Tabs : fetch[t].step = "done" =>
      LET seen == {fetch[t].got[i] : i \in DOMAIN fetch[t].got}
      IN /\ Cardinality(fetch[t].stayed \ seen) <= fetch[t].churn
         /\ Len(fetch[t].got) - Cardinality(seen) <= fetch[t].churn

(* A creation is several requests.  A user that was to get days is never   *)
(* left permanent, and one that was to be disabled never left enabled,     *)
(* unless the page is still at it, or has the failure counted or on show.  *)
(* Nothing is said after the page was closed in the midst, nor after what  *)
(* it showed was replaced.  (ui.go:1536-1572 and 2152-2190)                *)
NoSilentGap ==
    \A u \in Users : Exists(u) /\ asked[u] # Null =>
      \/ AsAsked(u)
      \/ report[asked[u].by] # "none"
      \/ /\ todo[asked[u].by] # << >>
         /\ Target(asked[u].by) = u
=============================================================================
